---------------------------- MODULE Spec2Model ----------------------------
(***************************************************************************)
(* A model of plex-wrapped: the analytics engine (wrapped_analytics.py)    *)
(* and the report run (generate_wrapped.py).                               *)
(*                                                                         *)
(* A history entry (a Python dict) is a record; a key the dict lacks is a  *)
(* field the record lacks, and dict.get(key, default) is Get.  A Python    *)
(* dict that is iterated (user_history, user_stats, show_watches) is a     *)
(* sequence of records in insertion order.  A title is a sequence of       *)
(* character codes.  Timestamps are epoch seconds and the process runs     *)
(* with TZ=UTC, so datetime.fromtimestamp(t).date() is the day t \div      *)
(* 86400 counted from 1970-01-01.                                          *)
(***************************************************************************)
EXTENDS Integers, Sequences, FiniteSets, TLC

VARIABLES
    history_data,   \* the event list (or the arguments) handed to one operation
    now,            \* the wall clock (epoch seconds) read by datetime.now()
    called,         \* the analytics operation that has been applied, or "none"
    result,         \* what that operation returned
    \* one run of generate_wrapped_reports
    pc,              \* where the run is: "start", "fetch", "fold", "users" (between
                     \* two iterations of the second loop), "user" (inside one),
                     \* "summary" (inside the summary's try), "done", or
                     \* "raised" when an exception has left the run
    all_history,     \* the fetched history entries
    folded,          \* how many entries of all_history the first loop has taken
    user_history,    \* dict: user -> the user's tracked entries
    user_stats,      \* dict: user -> {'movie', 'episode', 'total'}
    user_ids,        \* dict: user -> user_id
    rankings,        \* what calculate_user_rankings returned
    next_user,       \* the position of the second loop in user_history
    report,          \* the arguments of html_generator.generate_user_report: those
                     \* being assembled inside an iteration, else the last ones passed
    raised,          \* the operations that raised in the latest step of the run
    handed,          \* the users whose reports were handed to the renderer, in order
    generated_files, \* the files the renderer has written
    thumbnails       \* the on-disk thumbnail cache

\* the arguments and the result of one analytics call
callvars == <<history_data, called, result>>

\* the state of a run
runvars == <<pc, all_history, folded, user_history, user_stats, user_ids, rankings,
             next_user, report, raised, handed, generated_files, thumbnails>>

vars == <<now, callvars, runvars>>

---------------------------------------------------------------------------
(* Python built-ins *)

\* dict.get(key, default)
Get(item, key, default) == IF key \in DOMAIN item THEN item[key] ELSE default

\* the indices of a list, in iteration order
Indices(seq) == 1..Len(seq)

\* sorted(seq, key=...) where keys[i] is the key of seq[i]: Python's sort is
\* stable, so equal keys keep their input order.
SortedAsc(seq, keys) ==
    LET n == Len(seq)
        pos(i) == 1 + Cardinality({j \in 1..n :
                        keys[j] < keys[i] \/ (keys[j] = keys[i] /\ j < i)})
    IN  [p \in 1..n |-> seq[CHOOSE i \in 1..n : pos(i) = p]]

\* sorted(seq, key=..., reverse=True): descending, and still stable.
SortedDesc(seq, keys) ==
    LET n == Len(seq)
        pos(i) == 1 + Cardinality({j \in 1..n :
                        keys[j] > keys[i] \/ (keys[j] = keys[i] /\ j < i)})
    IN  [p \in 1..n |-> seq[CHOOSE i \in 1..n : pos(i) = p]]

\* sorted(a set of integers)
RECURSIVE SortedSet(_)
SortedSet(S) ==
    IF S = {} THEN <<>>
    ELSE LET m == CHOOSE x \in S : \A y \in S : x <= y
         IN  <<m>> \o SortedSet(S \ {m})

---------------------------------------------------------------------------
(* Dates *)

SecondsPerDay == 86400

\* datetime.fromtimestamp(t).date(), as the day number since 1970-01-01
DateOf(t) == t \div SecondsPerDay

\* The civil date (year, month, day) of a day number: what strftime prints.
CivilOf(d) ==
    LET z   == d + 719468
        era == z \div 146097
        doe == z - era * 146097
        yoe == (doe - doe \div 1460 + doe \div 36524 - doe \div 146096) \div 365
        doy == doe - (365 * yoe + yoe \div 4 - yoe \div 100)
        mp  == (5 * doy + 2) \div 153
        dd  == doy - (153 * mp + 2) \div 5 + 1
        mm  == IF mp < 10 THEN mp + 3 ELSE mp - 9
        yy  == yoe + era * 400 + (IF mm <= 2 THEN 1 ELSE 0)
    IN  [year |-> yy, month |-> mm, day |-> dd]

\* date.strftime('%B %d'): the month and the day, the year dropped
StrftimeBd(d) == [month |-> CivilOf(d).month, day |-> CivilOf(d).day]

\* datetime.fromtimestamp(t).strftime('%B %d, %Y')
StrftimeBdY(t) == CivilOf(DateOf(t))

---------------------------------------------------------------------------
(* WrappedAnalytics.calculate_watch_streaks *)

\* the loop over sorted_dates[1:], then the check of the final streak;
\* st = [longest_streak, current_streak, longest_streak_dates,
\*       current_streak_dates]
RECURSIVE ScanStreaksNoFinalCheck(_, _, _)
ScanStreaksNoFinalCheck(sorted_dates, i, st) ==
    IF i > Len(sorted_dates) THEN st
    ELSE IF sorted_dates[i] - sorted_dates[i - 1] = 1
         THEN ScanStreaksNoFinalCheck(sorted_dates, i + 1,
                  [st EXCEPT !.current_streak = st.current_streak + 1,
                             !.current_streak_dates =
                                 Append(st.current_streak_dates, sorted_dates[i])])
         ELSE ScanStreaksNoFinalCheck(sorted_dates, i + 1,
                  [longest_streak |->
                       IF st.current_streak > st.longest_streak
                       THEN st.current_streak ELSE st.longest_streak,
                   longest_streak_dates |->
                       IF st.current_streak > st.longest_streak
                       THEN st.current_streak_dates ELSE st.longest_streak_dates,
                   current_streak |-> 1,
                   current_streak_dates |-> <<sorted_dates[i]>>])

\* the scan with the dates of the longest streak never replaced: the count
\* is updated, the copy of current_streak_dates is not
RECURSIVE ScanStreaksDatesNotCopied(_, _, _)
ScanStreaksDatesNotCopied(sorted_dates, i, st) ==
    IF i > Len(sorted_dates)
    THEN IF st.current_streak > st.longest_streak
         THEN [st EXCEPT !.longest_streak = st.current_streak]
         ELSE st
    ELSE IF sorted_dates[i] - sorted_dates[i - 1] = 1
         THEN ScanStreaksDatesNotCopied(sorted_dates, i + 1,
                  [st EXCEPT !.current_streak = st.current_streak + 1,
                             !.current_streak_dates =
                                 Append(st.current_streak_dates, sorted_dates[i])])
         ELSE ScanStreaksDatesNotCopied(sorted_dates, i + 1,
                  [longest_streak |->
                       IF st.current_streak > st.longest_streak
                       THEN st.current_streak ELSE st.longest_streak,
                   longest_streak_dates |-> st.longest_streak_dates,
                   current_streak |-> 1,
                   current_streak_dates |-> <<sorted_dates[i]>>])

RECURSIVE ScanStreaks(_, _, _)
ScanStreaks(sorted_dates, i, st) ==
    IF i > Len(sorted_dates)
    THEN IF st.current_streak > st.longest_streak
         THEN [st EXCEPT !.longest_streak = st.current_streak,
                         !.longest_streak_dates = st.current_streak_dates]
         ELSE st
    ELSE IF sorted_dates[i] - sorted_dates[i - 1] = 1
         THEN ScanStreaks(sorted_dates, i + 1,
                  [st EXCEPT !.current_streak = st.current_streak + 1,
                             !.current_streak_dates =
                                 Append(st.current_streak_dates, sorted_dates[i])])
         ELSE ScanStreaks(sorted_dates, i + 1,
                  [longest_streak |->
                       IF st.current_streak > st.longest_streak
                       THEN st.current_streak ELSE st.longest_streak,
                   longest_streak_dates |->
                       IF st.current_streak > st.longest_streak
                       THEN st.current_streak_dates ELSE st.longest_streak_dates,
                   current_streak |-> 1,
                   current_streak_dates |-> <<sorted_dates[i]>>])

\* `current_ongoing = (today - sorted_dates[-1]).days <= 1`
CurrentOngoingToday(today, last_date) == today - last_date <= 0

CurrentOngoing(today, last_date) == today - last_date <= 1

\* the record returned for an empty list
EmptyStreaks == [longest_streak |-> 0, current_streak |-> 0, streak_dates |-> <<>>]

calculate_watch_streaks(history, clock) ==
    IF history = <<>> THEN EmptyStreaks
    ELSE
    LET dates == {DateOf(Get(history[i], "date", 0)) : i \in Indices(history)}
        sorted_dates == SortedSet(dates)
        st == ScanStreaks(sorted_dates, 2,
                  [longest_streak |-> 1, current_streak |-> 1,
                   longest_streak_dates |-> <<sorted_dates[1]>>,
                   current_streak_dates |-> <<sorted_dates[1]>>])
        today == DateOf(clock)
        current_ongoing == CurrentOngoing(today, sorted_dates[Len(sorted_dates)])
    IN  [longest_streak |-> st.longest_streak,
         current_streak |-> IF current_ongoing THEN st.current_streak ELSE 0,
         streak_start |-> StrftimeBd(st.longest_streak_dates[1]),
         streak_end |-> StrftimeBd(st.longest_streak_dates[Len(st.longest_streak_dates)]),
         total_active_days |-> Cardinality(dates)]

---------------------------------------------------------------------------
(* WrappedAnalytics.detect_binge_sessions *)

\* None: the value of dict.get(key) for a key the dict lacks
None == [none |-> TRUE]

\* 8 hours in seconds
BingeWindow == 28800

\* the fewest episodes a session is kept with
MinBingeEpisodes == 3

\* `if grandparent:` the title is present and not the empty string
HasShow(item) ==
    /\ "grandparent_title" \in DOMAIN item
    /\ item.grandparent_title # <<>>

\* the items that are appended to show_watches
IsShowEpisode(item) ==
    /\ "media_type" \in DOMAIN item
    /\ item.media_type = "episode"
    /\ HasShow(item)

\* the dict appended to show_watches[grandparent]
EpisodeOf(item) ==
    [date |-> Get(item, "date", None),
     title |-> Get(item, "full_title", None),
     episode_index |-> Get(item, "media_index", None),
     season |-> Get(item, "parent_media_index", None)]

\* the keys of show_watches in insertion order: each show at its first episode
RECURSIVE ShowKeys(_, _, _)
ShowKeys(history, i, keys) ==
    IF i > Len(history) THEN keys
    ELSE IF /\ IsShowEpisode(history[i])
            /\ \A k \in 1..Len(keys) : keys[k] # history[i].grandparent_title
         THEN ShowKeys(history, i + 1, Append(keys, history[i].grandparent_title))
         ELSE ShowKeys(history, i + 1, keys)

\* show_watches[show]: the episodes of the show in the order of the history
RECURSIVE ShowEpisodes(_, _, _)
ShowEpisodes(history, show, i) ==
    IF i > Len(history) THEN <<>>
    ELSE IF IsShowEpisode(history[i]) /\ history[i].grandparent_title = show
         THEN <<EpisodeOf(history[i])>> \o ShowEpisodes(history, show, i + 1)
         ELSE ShowEpisodes(history, show, i + 1)

WithinWindowOrOneMore(time_diff) == time_diff <= BingeWindow + 1

WithinWindowStrict(time_diff) == time_diff < BingeWindow

\* `if time_diff <= 28800`
WithinWindow(time_diff) == time_diff <= BingeWindow

\* `if len(session_episodes) >= 3`
IsBinge(session_episodes) == Len(session_episodes) >= MinBingeEpisodes

\* the dict appended to binge_sessions
SessionOf(show, session_episodes) ==
    [show |-> show,
     episode_count |-> Len(session_episodes),
     date |-> StrftimeBdY(session_episodes[1].date),
     episodes |-> session_episodes]

\* the loop over sorted_episodes[1:], then the check of the final session
RECURSIVE ScanSessions(_, _, _, _, _)
ScanSessions(show, sorted_episodes, i, session_episodes, out) ==
    IF i > Len(sorted_episodes)
    THEN IF IsBinge(session_episodes)
         THEN Append(out, SessionOf(show, session_episodes))
         ELSE out
    ELSE LET time_diff == sorted_episodes[i].date
                            - session_episodes[Len(session_episodes)].date
         IN  IF WithinWindow(time_diff)
             THEN ScanSessions(show, sorted_episodes, i + 1,
                               Append(session_episodes, sorted_episodes[i]), out)
             ELSE ScanSessions(show, sorted_episodes, i + 1,
                               <<sorted_episodes[i]>>,
                               IF IsBinge(session_episodes)
                               THEN Append(out, SessionOf(show, session_episodes))
                               ELSE out)

\* one iteration of `for show, episodes in show_watches.items()`; the sort
\* compares the dates, so it has a value when every episode of a show of
\* three or more has one (see SortRaises)
ShowSessions(show, episodes, out) ==
    IF Len(episodes) < MinBingeEpisodes THEN out
    ELSE LET sorted_episodes ==
                 SortedAsc(episodes, [i \in Indices(episodes) |-> episodes[i].date])
         IN  ScanSessions(show, sorted_episodes, 2, <<sorted_episodes[1]>>, out)

\* the loop over show_watches
RECURSIVE AllShowSessions(_, _, _, _)
AllShowSessions(history, keys, k, out) ==
    IF k > Len(keys) THEN out
    ELSE AllShowSessions(history, keys, k + 1,
             ShowSessions(keys[k], ShowEpisodes(history, keys[k], 1), out))

\* `sorted(episodes, key=lambda x: x['date'])` raises TypeError: a show has
\* three or more episodes (shorter lists are skipped before the sort) and one
\* of them has no date, so that None is compared
SortRaises(history) ==
    \E i \in Indices(history) :
        /\ IsShowEpisode(history[i])
        /\ "date" \notin DOMAIN history[i]
        /\ Cardinality({j \in Indices(history) :
                           /\ IsShowEpisode(history[j])
                           /\ history[j].grandparent_title
                                  = history[i].grandparent_title})
              >= MinBingeEpisodes

\* what the caller of a raising operation sees
TypeError == [raised |-> "TypeError"]

SortSessionsOmitted(binge_sessions) == binge_sessions

\* binge_sessions.sort(key=episode_count, reverse=True)
SortSessions(binge_sessions) ==
    SortedDesc(binge_sessions,
               [i \in Indices(binge_sessions) |-> binge_sessions[i].episode_count])

\* the returned list; the call raises instead when SortRaises(history)
detect_binge_sessions(history) ==
    SortSessions(AllShowSessions(history, ShowKeys(history, 1, <<>>), 1, <<>>))

---------------------------------------------------------------------------
(* Python dicts, slices and rounding *)

\* An iterated dict is the sequence of its [key, value] items in insertion order.
DictHas(d, k) == \E i \in Indices(d) : d[i].key = k

DictGet(d, k) == d[CHOOSE i \in Indices(d) : d[i].key = k].value

\* d[k] = v: a new key goes last, a known key keeps its place
DictSet(d, k, v) ==
    IF DictHas(d, k)
    THEN [i \in Indices(d) |-> IF d[i].key = k THEN [key |-> k, value |-> v] ELSE d[i]]
    ELSE Append(d, [key |-> k, value |-> v])

\* seq[:n] for n >= 0
Take(seq, n) == SubSeq(seq, 1, IF n < Len(seq) THEN n ELSE Len(seq))

\* sum(seq)
RECURSIVE Sum(_)
Sum(seq) == IF seq = <<>> THEN 0 ELSE Head(seq) + Sum(Tail(seq))

\* A Python float is an IEEE 754 double.  A positive one is kept as
\* [e, a, b, c]: the 53-bit significand a * 2^36 + b * 2^18 + c, with
\* 2^16 <= a < 2^17 and b, c < 2^18, times 2^(e - 52).  0.0 is FloatZero.
Limb == 2^18

FloatZero == [e |-> 0, a |-> 0, b |-> 0, c |-> 0]

\* num / den * 2^e brought to 1 <= num / den < 2
RECURSIVE Scale(_, _, _)
Scale(num, den, e) ==
    IF num < den THEN Scale(2 * num, den, e - 1)
    ELSE IF num >= 2 * den THEN Scale(num, 2 * den, e + 1)
    ELSE [num |-> num, den |-> den, e |-> e]

\* the next k bits of r / den, appended to acc, and the remainder left
RECURSIVE QuotientBits(_, _, _, _)
QuotientBits(r, den, k, acc) ==
    IF k = 0 THEN [bits |-> acc, r |-> r]
    ELSE IF 2 * r >= den THEN QuotientBits(2 * r - den, den, k - 1, 2 * acc + 1)
         ELSE QuotientBits(2 * r, den, k - 1, 2 * acc)

\* the first 53 bits of n / d for n, d > 0: the float at or just below the
\* quotient, with the remainder r (out of den) of the bits cut off
TruncatedQuotient(n, d) ==
    LET s == Scale(n, d, 0)
        qa == QuotientBits(s.num - s.den, s.den, 16, 1)
        qb == QuotientBits(qa.r, s.den, 18, 0)
        qc == QuotientBits(qb.r, s.den, 18, 0)
    IN  [float |-> [e |-> s.e, a |-> qa.bits, b |-> qb.bits, c |-> qc.bits],
         r |-> qc.r, den |-> s.den]

\* the float one unit in the last place above x
NextFloat(x) ==
    IF x.c + 1 < Limb THEN [x EXCEPT !.c = x.c + 1]
    ELSE IF x.b + 1 < Limb THEN [x EXCEPT !.b = x.b + 1, !.c = 0]
    ELSE IF x.a + 1 < 2^17 THEN [x EXCEPT !.a = x.a + 1, !.b = 0, !.c = 0]
    ELSE [e |-> x.e + 1, a |-> 2^16, b |-> 0, c |-> 0]

\* x <= y for two positive floats
FloatLeq(x, y) ==
    \/ x.e < y.e
    \/ x.e = y.e /\ x.a < y.a
    \/ x.e = y.e /\ x.a = y.a /\ x.b < y.b
    \/ x.e = y.e /\ x.a = y.a /\ x.b = y.b /\ x.c <= y.c

\* `n / d` for ints n >= 0 and d > 0: the float nearest to the quotient, the
\* one with an even significand when two are equally near
FloatDiv(n, d) ==
    IF n = 0 THEN FloatZero
    ELSE LET t == TruncatedQuotient(n, d)
         IN  IF 2 * t.r > t.den \/ (2 * t.r = t.den /\ t.float.c % 2 = 1)
             THEN NextFloat(t.float) ELSE t.float

\* `x * 100`: the exact product has 6 or 7 bits more than 53 and is rounded
\* to the nearest float, ties to even
FloatTimes100(x) ==
    IF x = FloatZero THEN x
    ELSE LET prod_c == x.c * 100
             prod_b == x.b * 100 + prod_c \div Limb
             prod_a == x.a * 100 + prod_b \div Limb
             sh == IF prod_a < 2^23 THEN 6 ELSE 7
             low == (prod_c % Limb) % 2^sh
             y == [e |-> x.e + sh,
                   a |-> prod_a \div 2^sh,
                   b |-> (prod_b % Limb) \div 2^sh + (prod_a % 2^sh) * 2^(18 - sh),
                   c |-> (prod_c % Limb) \div 2^sh + ((prod_b % Limb) % 2^sh) * 2^(18 - sh)]
         IN  IF low > 2^(sh - 1) \/ (low = 2^(sh - 1) /\ y.c % 2 = 1)
             THEN NextFloat(y) ELSE y

\* floor(10 * x) for a float x below 2^27
FloorTimes10(x) ==
    LET prod_c == x.c * 10
        prod_b == x.b * 10 + prod_c \div Limb
        prod_a == x.a * 10 + prod_b \div Limb
        s == 52 - x.e
    IN  IF s >= 58 THEN 0
        ELSE IF s >= 36 THEN prod_a \div 2^(s - 36)
        ELSE prod_a * 2^(36 - s) + (prod_b % Limb) \div 2^(s - 18)

\* round(x, 1) in tenths, for a float x >= 0: of the two tenths around x the
\* nearer one, found by comparing x with the midpoint (2k + 1) / 20, and the
\* even one when x is the midpoint itself
RoundFloat1(x) ==
    IF x = FloatZero THEN 0
    ELSE LET k == FloorTimes10(x)
             t == TruncatedQuotient(2 * k + 1, 20)
         IN  IF x = t.float /\ t.r = 0 THEN (IF k % 2 = 0 THEN k ELSE k + 1)
             ELSE IF FloatLeq(x, t.float) THEN k
             ELSE k + 1

\* round(n / d, 1) for ints n >= 0 and d > 0, in tenths
Round1(n, d) == RoundFloat1(FloatDiv(n, d))

\* round(n / d * 100, 1) for ints n >= 0 and d > 0, in tenths
RoundPercent1(n, d) == RoundFloat1(FloatTimes100(FloatDiv(n, d)))

\* x / total * 100 as the fraction num / den
Ratio(num, den) == [num |-> num, den |-> den]

---------------------------------------------------------------------------
(* WrappedAnalytics.calculate_user_rankings *)

\* the ten callouts, each without the emoji and the space it starts with
Callouts == <<"Server Champion", "Runner-Up Extraordinaire", "Bronze Binger",
              "Movie Maven", "TV Enthusiast", "Popcorn Pro", "Rising Star",
              "Entertainment Seeker", "Culture Consumer", "Content Connoisseur">>

\* the callout of every later rank, without its emoji
DefaultCallout == "Dedicated Viewer"

\* `if user == 'Total': continue`
IsRankedKey(user) == user # "Total"

\* the table's last callout is never given
CalloutBelowLast(rank) == IF rank < Len(Callouts) THEN Callouts[rank] ELSE DefaultCallout

\* callouts[i] if i < len(callouts) else the default, for the 1-based rank
CalloutOf(rank) == IF rank <= Len(Callouts) THEN Callouts[rank] ELSE DefaultCallout

\* an ascending sort read backwards: descending, with ties in reverse order
SortRankingsBackwards(rows) ==
    LET ascending == SortedAsc(rows, [i \in Indices(rows) |-> rows[i].total_time])
    IN  [i \in Indices(rows) |-> ascending[Len(rows) + 1 - i]]

\* rankings.sort(key=total_time, reverse=True)
SortRankings(rows) ==
    SortedDesc(rows, [i \in Indices(rows) |-> rows[i].total_time])

calculate_user_rankings(all_users_stats) ==
    LET kept == SelectSeq(all_users_stats, LAMBDA e : IsRankedKey(e.key))
        rows == [i \in Indices(kept) |->
                    [user |-> kept[i].key,
                     total_time |-> Get(kept[i].value, "total", 0),
                     movie_time |-> Get(kept[i].value, "movie", 0),
                     episode_time |-> Get(kept[i].value, "episode", 0)]]
        sorted == SortRankings(rows)
    IN  [i \in Indices(sorted) |->
            [user |-> sorted[i].user,
             total_time |-> sorted[i].total_time,
             movie_time |-> sorted[i].movie_time,
             episode_time |-> sorted[i].episode_time,
             rank |-> i,
             callout |-> CalloutOf(i),
             total_hours |-> Round1(sorted[i].total_time, 3600)]]

---------------------------------------------------------------------------
(* WrappedAnalytics.get_first_last_watch *)

\* 'Unknown'
UnknownTitle == <<85, 110, 107, 110, 111, 119, 110>>

\* `{...} if first else None`: the dict reported for the first and for the
\* last watch, None for an event that is an empty dict (falsy)
WatchOf(item) ==
    IF DOMAIN item = {} THEN None
    ELSE [title |-> Get(item, "full_title", UnknownTitle),
          date |-> StrftimeBdY(Get(item, "date", 0)),
          type |-> Get(item, "media_type", "unknown")]

\* the first and the last event of the list as it is, not sorted
first_last_as_listed(history) ==
    IF history = <<>> THEN [first |-> None, last |-> None]
    ELSE [first |-> WatchOf(history[1]), last |-> WatchOf(history[Len(history)])]

get_first_last_watch(history) ==
    IF history = <<>> THEN [first |-> None, last |-> None]
    ELSE LET sorted_history ==
                 SortedAsc(history, [i \in Indices(history) |-> Get(history[i], "date", 0)])
         IN  [first |-> WatchOf(sorted_history[1]),
              last |-> WatchOf(sorted_history[Len(sorted_history)])]

---------------------------------------------------------------------------
(* WrappedAnalytics._download_thumbnail *)

\* An on-disk thumbnail cache is a function from the rating keys that have a
\* file to "valid" (an image wider than 100) or "invalid".  What the Plex
\* server gives for a key is one of
\*   "error"    get_metadata or the download raises
\*   "nothumb"  the metadata names no thumb
\*   "rejected" the status is not 200 or the body has at most 5000 bytes
\*   "invalid"  the body is saved but is no image wider than 100
\*   "valid"    the body is saved and is an image wider than 100

\* f'{self.thumbnail_dir}/{rating_key}.jpg'
ThumbnailPath(rating_key) == <<"thumbnails", rating_key, ".jpg">>

\* the empty string
NoThumbnail == <<>>

\* the file exists and opens as an image wider than 100
CachedValid(files, rating_key) ==
    rating_key \in DOMAIN files /\ files[rating_key] = "valid"

\* the download that does not look at the cache first
download_thumbnail_uncached(files, served, rating_key) ==
    IF served = "valid"
    THEN [path |-> ThumbnailPath(rating_key),
          files |-> [k \in DOMAIN files \cup {rating_key} |->
                        IF k = rating_key THEN "valid" ELSE files[k]],
          requested |-> TRUE]
    ELSE IF served = "invalid"
         THEN [path |-> NoThumbnail,
               files |-> [k \in DOMAIN files \cup {rating_key} |->
                             IF k = rating_key THEN "invalid" ELSE files[k]],
               requested |-> TRUE]
         ELSE [path |-> NoThumbnail, files |-> files, requested |-> TRUE]

\* [path, files, requested]: the returned path, the cache afterwards, and
\* whether the server was asked (client.get_metadata and the download)
download_thumbnail(files, served, rating_key) ==
    IF CachedValid(files, rating_key)
    THEN [path |-> ThumbnailPath(rating_key), files |-> files, requested |-> FALSE]
    ELSE IF served = "valid"
         THEN [path |-> ThumbnailPath(rating_key),
               files |-> [k \in DOMAIN files \cup {rating_key} |->
                             IF k = rating_key THEN "valid" ELSE files[k]],
               requested |-> TRUE]
         ELSE IF served = "invalid"
              THEN [path |-> NoThumbnail,
                    files |-> [k \in DOMAIN files \cup {rating_key} |->
                                  IF k = rating_key THEN "invalid" ELSE files[k]],
                    requested |-> TRUE]
              ELSE [path |-> NoThumbnail, files |-> files, requested |-> TRUE]

---------------------------------------------------------------------------
(* WrappedAnalytics.get_top_watched_items *)

\* the longest title shown in full
TitleLimit == 36

\* the title cut without the dots
TruncateWithoutDots(title) ==
    IF Len(title) > TitleLimit THEN SubSeq(title, 1, TitleLimit) ELSE title

\* title[:36] + '...' if len(title) > 36 else title
Truncate(title) ==
    IF Len(title) > TitleLimit
    THEN SubSeq(title, 1, TitleLimit) \o <<46, 46, 46>>
    ELSE title

\* the grandparent of an episode or track, the item itself otherwise
UsesGrandparent(item) ==
    "media_type" \in DOMAIN item /\ item.media_type \in {"episode", "track"}

\* `if key and title`
HasKeyAndTitle(item) ==
    IF UsesGrandparent(item)
    THEN /\ "grandparent_rating_key" \in DOMAIN item
         /\ item.grandparent_rating_key # 0
         /\ HasShow(item)
    ELSE /\ "rating_key" \in DOMAIN item
         /\ item.rating_key # 0
         /\ "title" \in DOMAIN item
         /\ item.title # <<>>

TopKey(item) ==
    IF UsesGrandparent(item) THEN item.grandparent_rating_key ELSE item.rating_key

TopTitle(item) ==
    IF UsesGrandparent(item) THEN item.grandparent_title ELSE item.title

\* the loop that fills item_stats
RECURSIVE ItemStats(_, _, _)
ItemStats(history, i, item_stats) ==
    IF i > Len(history) THEN item_stats
    ELSE IF HasKeyAndTitle(history[i])
         THEN LET key == TopKey(history[i])
                  before == IF DictHas(item_stats, key)
                            THEN DictGet(item_stats, key).duration ELSE 0
              IN  ItemStats(history, i + 1,
                      DictSet(item_stats, key,
                          [duration |-> before + Get(history[i], "play_duration", 0),
                           title |-> Truncate(TopTitle(history[i])),
                           rating_key |-> key,
                           type |-> Get(history[i], "media_type", None)]))
         ELSE ItemStats(history, i + 1, item_stats)

\* sorted(item_stats.items(), key=duration, reverse=True)[:limit]
TopItems(item_stats, limit) ==
    Take(SortedDesc(item_stats,
                    [i \in Indices(item_stats) |-> item_stats[i].value.duration]),
         limit)

\* the loop that resolves a thumbnail for each kept item, in order; served[k]
\* is what the Plex server gives for key k
RECURSIVE TopResult(_, _, _, _, _)
TopResult(sorted_items, i, files, served, out) ==
    IF i > Len(sorted_items) THEN [result |-> out, files |-> files]
    ELSE LET stats == sorted_items[i].value
             got == download_thumbnail(files, served[stats.rating_key], stats.rating_key)
         IN  TopResult(sorted_items, i + 1, got.files, served,
                 Append(out, [title |-> stats.title,
                              rating_key |-> stats.rating_key,
                              duration |-> stats.duration,
                              hours |-> Round1(stats.duration, 3600),
                              thumbnail |-> got.path,
                              type |-> stats.type]))

\* [result, files]: the returned list and the thumbnail cache afterwards
get_top_watched_items(history, limit, files, served) ==
    TopResult(TopItems(ItemStats(history, 1, <<>>), limit), 1, files, served, <<>>)

---------------------------------------------------------------------------
(* WrappedAnalytics.get_peak_watching_hours *)

\* hourly_totals[h] for the hour h - 1: the sum of every series' value there
HourlyTotals(series_data) ==
    [h \in 1..24 |->
        Sum([k \in Indices(series_data) |->
                LET values == Get(series_data[k], "data", <<>>)
                IN  IF h <= Len(values) THEN values[h] ELSE 0])]

\* max(hourly_totals)
MaxOf(seq) == CHOOSE v \in {seq[i] : i \in Indices(seq)} : \A i \in Indices(seq) : seq[i] <= v

\* the last hour that has the maximum
PeakHourLast(hourly_totals) ==
    (CHOOSE h \in 1..24 :
        /\ hourly_totals[h] = MaxOf(hourly_totals)
        /\ \A g \in (h + 1)..24 : hourly_totals[g] # MaxOf(hourly_totals)) - 1

\* hourly_totals.index(max(hourly_totals)): the first hour that has the maximum
PeakHour(hourly_totals) ==
    (CHOOSE h \in 1..24 :
        /\ hourly_totals[h] = MaxOf(hourly_totals)
        /\ \A g \in 1..(h - 1) : hourly_totals[g] # MaxOf(hourly_totals)) - 1

\* sum(hourly_totals[a:b])
BandSeconds(hourly_totals, a, b) == Sum(SubSeq(hourly_totals, a + 1, b))

\* the band without the guard on the total: x/total*100 whatever the total
BandUnguarded(seconds, total) ==
    [seconds |-> seconds, percentage |-> Ratio(seconds * 100, total)]

\* {'seconds': x, 'percentage': (x/total*100) if total > 0 else 0}
Band(seconds, total) ==
    [seconds |-> seconds,
     percentage |-> IF total > 0 THEN Ratio(seconds * 100, total) ELSE Ratio(0, 1)]

\* the response of client.get_plays_by_hourofday is `data`
get_peak_watching_hours(data) ==
    LET series_data == Get(Get(data, "data", <<>>), "series", <<>>)
        hourly_totals == HourlyTotals(series_data)
        peak_hour == PeakHour(hourly_totals)
        total == Sum(hourly_totals)
    IN  [hourly_data |-> hourly_totals,
         peak_hour |-> peak_hour,
         peak_value |-> MaxOf(hourly_totals),
         peak_hour_formatted |-> <<peak_hour \div 10, peak_hour % 10, ":", 0, 0>>,
         distribution |->
             [morning |-> Band(BandSeconds(hourly_totals, 6, 12), total),
              afternoon |-> Band(BandSeconds(hourly_totals, 12, 18), total),
              evening |-> Band(BandSeconds(hourly_totals, 18, 24), total),
              night |-> Band(BandSeconds(hourly_totals, 0, 6), total)]]

---------------------------------------------------------------------------
(* WrappedAnalytics.get_platform_breakdown *)

\* the two loops that fill platform_totals, as one walk over the pairs
\* (series k, category i) in the order of the loops
RECURSIVE PlatformTotals(_, _, _, _, _)
PlatformTotals(platforms, series_data, k, i, totals) ==
    IF k > Len(series_data) THEN totals
    ELSE IF i > Len(platforms)
         THEN PlatformTotals(platforms, series_data, k + 1, 1, totals)
         ELSE LET values == Get(series_data[k], "data", <<>>)
                  before == IF DictHas(totals, platforms[i])
                            THEN DictGet(totals, platforms[i]) ELSE 0
              IN  IF i <= Len(values)
                  THEN PlatformTotals(platforms, series_data, k, i + 1,
                           DictSet(totals, platforms[i], before + values[i]))
                  ELSE PlatformTotals(platforms, series_data, k, i + 1, totals)

\* the response of client.get_plays_by_top_10_platforms is `data`
get_platform_breakdown(data) ==
    LET platforms == Get(Get(data, "data", <<>>), "categories", <<>>)
        series_data == Get(Get(data, "data", <<>>), "series", <<>>)
        platform_totals == PlatformTotals(platforms, series_data, 1, 1, <<>>)
        total == Sum([i \in Indices(platform_totals) |-> platform_totals[i].value])
        sorted == SortedDesc(platform_totals,
                      [i \in Indices(platform_totals) |-> platform_totals[i].value])
        platform_list ==
            [i \in Indices(sorted) |->
                [name |-> sorted[i].key,
                 seconds |-> sorted[i].value,
                 hours |-> Round1(sorted[i].value, 3600),
                 percentage |-> IF total > 0
                                THEN RoundPercent1(sorted[i].value, total) ELSE 0]]
    IN  [platforms |-> platform_list,
         top_platform |-> IF platform_list # <<>> THEN platform_list[1] ELSE None]

---------------------------------------------------------------------------
(* WrappedAnalytics.analyze_genre_diversity *)

\* A call of the client is answered by [ok |-> TRUE, response |-> r], or by
\* [ok |-> FALSE] when it raises.

\* `x.get(a) or x.get(b)` for integer keys: a when present and not 0, else b
\* when present, else None
FirstKey(item, a, b) ==
    IF a \in DOMAIN item /\ item[a] # 0 THEN item[a]
    ELSE IF b \in DOMAIN item THEN item[b] ELSE None

\* whether that value is truthy
HasFirstKey(item, a, b) ==
    \/ a \in DOMAIN item /\ item[a] # 0
    \/ b \in DOMAIN item /\ item[b] # 0

\* item.get('rating_key') or item.get('grandparent_rating_key')
GenreKey(item) == FirstKey(item, "rating_key", "grandparent_rating_key")

HasGenreKey(item) == HasFirstKey(item, "rating_key", "grandparent_rating_key")

\* the inner loop over the genres of one item
RECURSIVE AddGenres(_, _, _, _)
AddGenres(genres, g, duration, acc) ==
    IF g > Len(genres) THEN acc
    ELSE LET before == IF DictHas(acc.genre_time, genres[g])
                       THEN DictGet(acc.genre_time, genres[g]) ELSE 0
         IN  AddGenres(genres, g + 1, duration,
                 [all_genres |-> Append(acc.all_genres, genres[g]),
                  genre_time |-> DictSet(acc.genre_time, genres[g], before + duration)])

\* the loop if a failing lookup ended it: the later items are not read
RECURSIVE ScanGenresUntilFailure(_, _, _, _)
ScanGenresUntilFailure(history, i, metadata, acc) ==
    IF i > Len(history) THEN acc
    ELSE IF ~HasGenreKey(history[i])
         THEN ScanGenresUntilFailure(history, i + 1, metadata, acc)
    ELSE LET answer == metadata[GenreKey(history[i])]
         IN  IF ~answer.ok THEN acc
             ELSE ScanGenresUntilFailure(history, i + 1, metadata,
                      AddGenres(Get(Get(answer.response, "data", <<>>), "genres", <<>>),
                                1, Get(history[i], "play_duration", 0), acc))

\* the loop over the history; metadata[k] answers client.get_metadata(k)
RECURSIVE ScanGenres(_, _, _, _)
ScanGenres(history, i, metadata, acc) ==
    IF i > Len(history) THEN acc
    ELSE IF ~HasGenreKey(history[i]) THEN ScanGenres(history, i + 1, metadata, acc)
    ELSE LET answer == metadata[GenreKey(history[i])]
         IN  IF ~answer.ok THEN ScanGenres(history, i + 1, metadata, acc)
             ELSE ScanGenres(history, i + 1, metadata,
                      AddGenres(Get(Get(answer.response, "data", <<>>), "genres", <<>>),
                                1, Get(history[i], "play_duration", 0), acc))

\* the key each item is looked up with (client.get_metadata(rating_key)), or
\* None for an item that is skipped
GenreLookups(history) ==
    [i \in Indices(history) |->
        IF HasGenreKey(history[i]) THEN GenreKey(history[i]) ELSE None]

analyze_genre_diversity(history, metadata) ==
    LET acc == ScanGenres(history, 1, metadata, [all_genres |-> <<>>, genre_time |-> <<>>])
        sorted == Take(SortedDesc(acc.genre_time,
                           [i \in Indices(acc.genre_time) |-> acc.genre_time[i].value]), 5)
    IN  [unique_genres |-> Cardinality({acc.all_genres[i] : i \in Indices(acc.all_genres)}),
         top_genres |-> [i \in Indices(sorted) |->
                            [name |-> sorted[i].key,
                             seconds |-> sorted[i].value,
                             hours |-> Round1(sorted[i].value, 3600)]],
         total_genre_tags |-> Len(acc.all_genres)]

---------------------------------------------------------------------------
(* WrappedAnalytics.calculate_library_coverage *)

\* whether an item's media type is the one the library's section type holds
Matches(library, item) ==
    /\ "section_type" \in DOMAIN library
    /\ "media_type" \in DOMAIN item
    /\ \/ library.section_type = "movie" /\ item.media_type = "movie"
       \/ library.section_type = "show" /\ item.media_type = "episode"
       \/ library.section_type = "artist" /\ item.media_type = "track"

\* len([x for x in watched_items if x]): the distinct truthy keys of the
\* matching items
WatchedCount(history, library) ==
    Cardinality({
        (IF history[i].media_type \in {"episode", "track"}
         THEN history[i].grandparent_rating_key ELSE history[i].rating_key) :
        i \in {j \in Indices(history) :
                 /\ Matches(library, history[j])
                 /\ IF history[j].media_type \in {"episode", "track"}
                    THEN /\ "grandparent_rating_key" \in DOMAIN history[j]
                         /\ history[j].grandparent_rating_key # 0
                    ELSE /\ "rating_key" \in DOMAIN history[j]
                         /\ history[j].rating_key # 0}})

\* round((watched_count / total_items * 100) if total_items > 0 else 0, 1)
CoveragePercentage(watched_count, total_items) ==
    IF total_items > 0 THEN RoundPercent1(watched_count, total_items) ELSE 0

\* the loop if a failing lookup ended it: the later libraries are not read
RECURSIVE ScanLibrariesUntilFailure(_, _, _, _, _)
ScanLibrariesUntilFailure(history, libraries, l, media_info, coverage) ==
    IF l > Len(libraries) THEN coverage
    ELSE LET library == libraries[l]
             answer == media_info[Get(library, "section_id", None)]
         IN  IF ~answer.ok THEN coverage
             ELSE LET total_items ==
                          Get(Get(answer.response, "data", <<>>), "recordsTotal", 0)
                      watched_count == WatchedCount(history, library)
                  IN  ScanLibrariesUntilFailure(history, libraries, l + 1, media_info,
                          Append(coverage,
                              [name |-> Get(library, "section_name", None),
                               type |-> Get(library, "section_type", None),
                               watched |-> watched_count,
                               total |-> total_items,
                               percentage |->
                                   CoveragePercentage(watched_count, total_items)]))

\* the loop over the libraries; media_info[id] answers
\* client.get_library_media_info(id)
RECURSIVE ScanLibraries(_, _, _, _, _)
ScanLibraries(history, libraries, l, media_info, coverage) ==
    IF l > Len(libraries) THEN coverage
    ELSE LET library == libraries[l]
             answer == media_info[Get(library, "section_id", None)]
         IN  IF ~answer.ok
             THEN ScanLibraries(history, libraries, l + 1, media_info, coverage)
             ELSE LET total_items ==
                          Get(Get(answer.response, "data", <<>>), "recordsTotal", 0)
                      watched_count == WatchedCount(history, library)
                  IN  ScanLibraries(history, libraries, l + 1, media_info,
                          Append(coverage,
                              [name |-> Get(library, "section_name", None),
                               type |-> Get(library, "section_type", None),
                               watched |-> watched_count,
                               total |-> total_items,
                               percentage |->
                                   CoveragePercentage(watched_count, total_items)]))

\* libraries_response is what client.get_libraries() returned
calculate_library_coverage(history, libraries_response, media_info) ==
    [libraries |-> ScanLibraries(history, Get(libraries_response, "data", <<>>),
                                 1, media_info, <<>>)]

---------------------------------------------------------------------------
(* WrappedAnalytics.find_unique_content *)

\* the item's own key first
ContentKeyItemFirst(item) == FirstKey(item, "rating_key", "grandparent_rating_key")

\* item.get('grandparent_rating_key') or item.get('rating_key')
ContentKey(item) == FirstKey(item, "grandparent_rating_key", "rating_key")

HasContentKey(item) == HasFirstKey(item, "grandparent_rating_key", "rating_key")

\* the content keys of a list of events
ContentKeys(history) ==
    {ContentKey(history[i]) : i \in {j \in Indices(history) : HasContentKey(history[j])}}

\* user_item_details[key]: taken from the first event that has the key
ItemDetails(history, key) ==
    LET first == CHOOSE i \in Indices(history) :
                     /\ HasContentKey(history[i]) /\ ContentKey(history[i]) = key
                     /\ \A j \in 1..(i - 1) :
                            ~(HasContentKey(history[j]) /\ ContentKey(history[j]) = key)
        item == history[first]
    IN  [title |-> IF HasShow(item) THEN item.grandparent_title
                   ELSE Get(item, "title", None),
         type |-> Get(item, "media_type", None)]

\* the keys of one user only: the first of the map that is not the target
OtherUsersItemsOfFirst(all_users_history, target_user) ==
    LET others == SelectSeq(all_users_history, LAMBDA e : e.key # target_user)
    IN  IF others = <<>> THEN {} ELSE ContentKeys(others[1].value)

\* the keys of every user but the target
OtherUsersItems(all_users_history, target_user) ==
    UNION {ContentKeys(all_users_history[u].value) :
              u \in {v \in Indices(all_users_history) :
                        all_users_history[v].key # target_user}}

\* A Python set of positive integer keys is its hash table: a sequence of
\* 8, 32, 128, ... slots that hold a key or 0, iterated in slot order.  The
\* hash of such a key is the key.
SetMinSize == 8

\* the slot set_add_entry / set_insert_clean find for a key that is not in the
\* table: the probed slot, then the next 9 when they all lie in the table,
\* then the slot the perturbed recurrence gives
RECURSIVE SetProbe(_, _, _)
SetProbe(table, i, perturb) ==
    LET mask == Len(table) - 1
        free == {j \in (i + 1)..(i + 9) : i + 9 <= mask /\ table[j + 1] = 0}
    IN  IF table[i + 1] = 0 THEN i
        ELSE IF free # {} THEN CHOOSE j \in free : \A k \in free : j <= k
        ELSE SetProbe(table, (i * 5 + 1 + (perturb \div 32)) % (mask + 1),
                      perturb \div 32)

SetInsertClean(table, key) ==
    [table EXCEPT ![SetProbe(table, key % Len(table), key) + 1] = key]

\* the keys of a table in iteration order
SetOrder(table) == SelectSeq(table, LAMBDA k : k # 0)

RECURSIVE SetInsertAll(_, _, _)
SetInsertAll(table, keys, i) ==
    IF i > Len(keys) THEN table
    ELSE SetInsertAll(SetInsertClean(table, keys[i]), keys, i + 1)

\* the smallest table size above minused
RECURSIVE SetSizeAbove(_, _)
SetSizeAbove(size, minused) ==
    IF size > minused THEN size ELSE SetSizeAbove(2 * size, minused)

\* set_table_resize: a table with more than minused slots, refilled in the
\* old iteration order
SetResize(table, minused) ==
    SetInsertAll([i \in 1..SetSizeAbove(SetMinSize, minused) |-> 0], SetOrder(table), 1)

\* set.add(key): the table grows fourfold once three fifths of it are in use
SetAdd(table, key) ==
    IF \E i \in Indices(table) : table[i] = key THEN table
    ELSE LET added == SetInsertClean(table, key)
             fill == Len(SetOrder(added))
         IN  IF fill * 5 < (Len(table) - 1) * 3 THEN added
             ELSE SetResize(added, fill * 4)

EmptySet == [i \in 1..SetMinSize |-> 0]

RECURSIVE SetAddAll(_, _, _)
SetAddAll(table, keys, i) ==
    IF i > Len(keys) THEN table ELSE SetAddAll(SetAdd(table, keys[i]), keys, i + 1)

\* user_items: the target's keys added in the order of the events
UserItems(history) ==
    LET with == SelectSeq(history, HasContentKey)
    IN  SetAddAll(EmptySet, [i \in Indices(with) |-> ContentKey(with[i])], 1)

\* the iteration order of `user_items - other_users_items`: when the left set
\* has more than four times the right one's keys, a copy of the left set
\* without the right keys, else a new set filled from the left one.  The copy
\* (set_merge into an empty set) first grows the empty table for the keys to
\* come, then takes the left table slot by slot when the two have the same
\* size, and re-inserts the keys in iteration order when they have not.
SetDifference(table, other) ==
    LET keys == SetOrder(table)
    IN  IF Len(keys) \div 4 > Cardinality(other)
        THEN LET empty == IF Len(keys) * 5 >= (SetMinSize - 1) * 3
                          THEN SetResize(EmptySet, Len(keys) * 2)
                          ELSE EmptySet
                 copy == IF Len(empty) = Len(table) THEN table
                         ELSE SetInsertAll(empty, keys, 1)
             IN  SelectSeq(copy, LAMBDA k : k # 0 /\ k \notin other)
        ELSE SetOrder(SetAddAll(EmptySet, SelectSeq(keys, LAMBDA k : k \notin other), 1))

\* `unique_keys = user_items - other_users_items`, in iteration order
unique_keys(all_users_history, target_user) ==
    SetDifference(UserItems(DictGet(all_users_history, target_user)),
                  OtherUsersItems(all_users_history, target_user))

find_unique_content(all_users_history, target_user) ==
    IF ~DictHas(all_users_history, target_user) THEN [unique_items |-> <<>>]
    ELSE LET history == DictGet(all_users_history, target_user)
             keys == unique_keys(all_users_history, target_user)
             unique_items == [i \in Indices(keys) |-> ItemDetails(history, keys[i])]
         IN  [unique_items |-> Take(unique_items, 10), count |-> Len(unique_items)]

---------------------------------------------------------------------------
(* generate_wrapped_reports: the first loop *)

\* definitions.tracked_media
TrackedMedia == {"movie", "episode"}

\* `if media_type in tracked_media and user`
IsTracked(entry) ==
    /\ "media_type" \in DOMAIN entry
    /\ entry.media_type \in TrackedMedia
    /\ "friendly_name" \in DOMAIN entry
    /\ entry.friendly_name # ""

\* the body that adds the duration to the total only
FoldEntryIntoTotalOnly(dicts, entry) ==
    IF ~IsTracked(entry) THEN dicts
    ELSE LET user == entry.friendly_name
             before == IF DictHas(dicts.user_history, user)
                       THEN DictGet(dicts.user_history, user) ELSE <<>>
             stats == IF DictHas(dicts.user_stats, user)
                      THEN DictGet(dicts.user_stats, user)
                      ELSE [movie |-> 0, episode |-> 0, total |-> 0]
             duration == Get(entry, "play_duration", 0)
         IN  [user_history |-> DictSet(dicts.user_history, user, Append(before, entry)),
              user_ids |->
                  IF /\ ~DictHas(dicts.user_ids, user)
                     /\ "user_id" \in DOMAIN entry
                     /\ entry.user_id # 0
                  THEN DictSet(dicts.user_ids, user, entry.user_id)
                  ELSE dicts.user_ids,
              user_stats |->
                  DictSet(dicts.user_stats, user, [stats EXCEPT !.total = @ + duration])]

\* the body of `for entry in all_history` on the three dicts
FoldEntryInto(dicts, entry) ==
    IF ~IsTracked(entry) THEN dicts
    ELSE LET user == entry.friendly_name
             before == IF DictHas(dicts.user_history, user)
                       THEN DictGet(dicts.user_history, user) ELSE <<>>
             stats == IF DictHas(dicts.user_stats, user)
                      THEN DictGet(dicts.user_stats, user)
                      ELSE [movie |-> 0, episode |-> 0, total |-> 0]
             duration == Get(entry, "play_duration", 0)
         IN  [user_history |-> DictSet(dicts.user_history, user, Append(before, entry)),
              user_ids |->
                  IF /\ ~DictHas(dicts.user_ids, user)
                     /\ "user_id" \in DOMAIN entry
                     /\ entry.user_id # 0
                  THEN DictSet(dicts.user_ids, user, entry.user_id)
                  ELSE dicts.user_ids,
              user_stats |->
                  DictSet(dicts.user_stats, user,
                      [stats EXCEPT ![entry.media_type] = @ + duration,
                                    !.total = @ + duration])]

\* the dicts before the loop
NoDicts == [user_history |-> <<>>, user_ids |-> <<>>, user_stats |-> <<>>]

\* the dicts after the loop has taken the first n entries
RECURSIVE FoldHistory(_, _)
FoldHistory(history, n) ==
    IF n = 0 THEN NoDicts
    ELSE FoldEntryInto(FoldHistory(history, n - 1), history[n])

---------------------------------------------------------------------------
(* The server a run talks to.  What it answers is fixed; an operation that *)
(* raises is chosen by the run's actions.                                  *)

\* the user_id argument of the per-user calls: str(history[0].get('user_id'))
UserIdArg(history) ==
    IF "user_id" \in DOMAIN history[1]
    THEN [user_id |-> history[1].user_id]
    ELSE [user_id_text |-> "None"]

\* no user_id argument: the server-wide call
NoUserId == <<>>

HoursOf(at7, at20) == [h \in 1..24 |-> IF h = 8 THEN at7 ELSE IF h = 21 THEN at20 ELSE 0]

\* client.get_plays_by_hourofday(user_id=arg)
ServerHourOfDay(arg) ==
    [data |->
        [categories |-> <<>>,
         series |->
             IF "user_id" \in DOMAIN arg /\ arg.user_id = 1
             THEN <<[name |-> "Movies", data |-> HoursOf(0, 3600)],
                    [name |-> "TV", data |-> HoursOf(1800, 1800)]>>
             ELSE IF "user_id" \in DOMAIN arg
             THEN <<[name |-> "Movies", data |-> HoursOf(0, 0)],
                    [name |-> "TV", data |-> HoursOf(0, 0)]>>
             ELSE <<[name |-> "Movies", data |-> HoursOf(1800, 9000)],
                    [name |-> "TV", data |-> HoursOf(1800, 5400)]>>]]

\* client.get_plays_by_top_10_platforms(user_id=arg)
ServerPlatforms(arg) ==
    [data |->
        [categories |-> <<"Roku", "Chrome">>,
         series |->
             IF "user_id" \in DOMAIN arg /\ arg.user_id = 1
             THEN <<[name |-> "Movies", data |-> <<3600, 0>>],
                    [name |-> "TV", data |-> <<1800, 1800>>]>>
             ELSE <<[name |-> "Movies", data |-> <<1800, 9000>>],
                    [name |-> "TV", data |-> <<5400, 1800>>]>>]]

\* the rating keys of the server's items
RatingKeys == 1..31

\* client.get_metadata(rating_key): the lookup of key 11 raises
ServerMetadata ==
    [rating_key \in RatingKeys |->
        IF rating_key = 11 THEN [ok |-> FALSE]
        ELSE [ok |-> TRUE,
              response |->
                  [data |-> [genres |-> IF rating_key = 10 THEN <<"Drama", "Crime">>
                                        ELSE <<"Drama">>,
                             thumb |-> <<"thumb", rating_key>>]]]]

\* what a thumbnail download of the key ends in
ServerImage ==
    [rating_key \in RatingKeys |->
        IF rating_key = 10 THEN "valid"
        ELSE IF rating_key = 20 THEN "invalid"
        ELSE IF rating_key = 11 THEN "error"
        ELSE "rejected"]

\* client.get_libraries()
ServerLibraries ==
    [data |-> <<[section_id |-> 1, section_name |-> "Movies", section_type |-> "movie"],
                [section_id |-> 2, section_name |-> "TV Shows", section_type |-> "show"],
                [section_id |-> 3, section_name |-> "Music", section_type |-> "artist"]>>]

\* client.get_library_media_info(section_id): the lookup of section 3 raises
ServerMediaInfo ==
    [section_id \in 1..3 |->
        IF section_id = 3 THEN [ok |-> FALSE]
        ELSE [ok |-> TRUE,
              response |-> [data |-> [recordsTotal |-> IF section_id = 1 THEN 4 ELSE 0]]]]

\* client.get_user(user_id)['data']['user_thumb']
ServerUserThumb(user_id) == <<"user_thumb", user_id>>

---------------------------------------------------------------------------
(* generate_wrapped_reports: one user's report *)

\* the operations of the second loop that are guarded by a try
UserStats == {"top_watched", "peak_hours", "platforms", "first_last", "streak",
              "binge_sessions", "genres", "library_coverage", "unique_content"}

UserOps == UserStats \cup {"get_user", "render"}

\* what a statistic is set to when its operation raises: [] or {}
EmptyStat == <<>>

\* next((r for r in rankings if r['user'] == user), None)
UserRanking(ranks, user) ==
    IF \E i \in Indices(ranks) : ranks[i].user = user
    THEN LET r == ranks[CHOOSE i \in Indices(ranks) :
                          /\ ranks[i].user = user
                          /\ \A j \in 1..(i - 1) : ranks[j].user # user]
         IN  [rank |-> r.rank, callout |-> r.callout, total_users |-> Len(ranks)]
    ELSE [rank |-> None, callout |-> None, total_users |-> Len(ranks)]

\* wrapped_stats as first built: the totals and the ranking
HeadlineStats(stat, ranking) ==
    [total_hours |-> Round1(Get(stat, "total", 0), 3600),
     total_days |-> Round1(Get(stat, "total", 0), 86400),
     movie_hours |-> Round1(Get(stat, "movie", 0), 3600),
     show_hours |-> Round1(Get(stat, "episode", 0), 3600),
     ranking |-> ranking]

\* get_top_watched_items(history, limit=5)
TopLimit == 5

\* history[:100]
GenreLimit == 100

\* what each guarded operation of one user's iteration returns when it does
\* not raise (top_watched with the thumbnail cache it leaves); when the sort
\* of detect_binge_sessions raises, what its try leaves in wrapped_stats
UserValues(dicts, user, files, clock) ==
    LET history == DictGet(dicts.user_history, user)
    IN  [top_watched |-> get_top_watched_items(history, TopLimit, files, ServerImage),
         peak_hours |-> get_peak_watching_hours(ServerHourOfDay(UserIdArg(history))),
         platforms |-> get_platform_breakdown(ServerPlatforms(UserIdArg(history))),
         first_last |-> get_first_last_watch(history),
         streak |-> calculate_watch_streaks(history, clock),
         binge_sessions |-> IF SortRaises(history) THEN EmptyStat
                            ELSE detect_binge_sessions(history),
         genres |-> analyze_genre_diversity(Take(history, GenreLimit), ServerMetadata),
         library_coverage |->
             calculate_library_coverage(history, ServerLibraries, ServerMediaInfo),
         unique_content |-> find_unique_content(dicts.user_history, user)]

\* wrapped_stats[name] after the try of the statistic: the value, or the empty
\* one when the operation raised
Guarded(values, name, fails) ==
    IF name \in fails THEN EmptyStat
    ELSE IF name = "top_watched" THEN values[name].result
    ELSE values[name]

\* wrapped_stats if one try held all the statistics: a raise would empty
\* every one of them
AssembleUserOneTry(values, headline, fails) ==
    [k \in UserStats \cup DOMAIN headline |->
        IF k \in UserStats
        THEN (IF fails \cap UserStats # {} THEN EmptyStat ELSE Guarded(values, k, fails))
        ELSE headline[k]]

\* the statistics in the order of their try blocks
StatOrder == <<"top_watched", "peak_hours", "platforms", "first_last", "streak",
               "binge_sessions", "genres", "library_coverage", "unique_content">>

\* one try block: wrapped_stats[name] = <what the operation returns>, or
\* the empty structure in the except clause; the other keys stay
TryStat(wrapped_stats, name, values, fails) ==
    [k \in DOMAIN wrapped_stats \cup {name} |->
        IF k = name THEN Guarded(values, name, fails) ELSE wrapped_stats[k]]

\* wrapped_stats after the first n try blocks
RECURSIVE AssembleStats(_, _, _, _)
AssembleStats(wrapped_stats, n, values, fails) ==
    IF n = 0 THEN wrapped_stats
    ELSE TryStat(AssembleStats(wrapped_stats, n - 1, values, fails), StatOrder[n],
                 values, fails)

\* wrapped_stats of one user when the operations in fails raise: each
\* statistic is computed in its own try, one after the other
AssembleUser(values, headline, fails) ==
    AssembleStats(headline, Len(StatOrder), values, fails)

\* the thumbnail caches the iteration may leave.  get_top_watched_items
\* downloads the thumbnail of each kept item as it goes, so when it raises the
\* cache is the one after any number of its downloads, none included
FilesAfter(values, files, fails, history) ==
    IF "top_watched" \in fails
    THEN {get_top_watched_items(history, k, files, ServerImage).files : k \in 0..TopLimit}
    ELSE {values.top_watched.files}

\* user_thumb: the profile picture when the user has an id and get_user
\* does not raise
UserThumb(ids, user, fails) ==
    IF DictHas(ids, user) /\ "get_user" \notin fails
    THEN ServerUserThumb(DictGet(ids, user))
    ELSE None

---------------------------------------------------------------------------
(* generate_wrapped_reports: the summary report *)

SummaryUser == "Server Summary"

\* the operations of the summary, all inside one try
SummaryOps == {"peak_hours", "platforms", "first_last", "streak", "binge_sessions",
               "render"}

\* how the summary's try can end: "none" when nothing raises, or the first
\* operation that raises.  detect_binge_sessions is called after the other
\* four analytics operations; when its sort raises on the history, the try
\* ends there unless one of those four raised before it
SummaryOutcomes(history) ==
    IF SortRaises(history) THEN SummaryOps \ {"render"}
    ELSE SummaryOps \cup {"none"}

\* sum(s.get(field, 0) for s in user_stats.values())
SumStats(stats, field) ==
    Sum([i \in Indices(stats) |-> Get(stats[i].value, field, 0)])

\* summary_stats
SummaryStats(history, stats, ranks, clock) ==
    [total_hours |-> Round1(SumStats(stats, "total"), 3600),
     total_days |-> Round1(SumStats(stats, "total"), 86400),
     movie_hours |-> Round1(SumStats(stats, "movie"), 3600),
     show_hours |-> Round1(SumStats(stats, "episode"), 3600),
     ranking |-> [rank |-> 1, callout |-> "Server Overview", total_users |-> Len(ranks)],
     peak_hours |-> get_peak_watching_hours(ServerHourOfDay(NoUserId)),
     platforms |-> get_platform_breakdown(ServerPlatforms(NoUserId)),
     first_last |-> get_first_last_watch(history),
     streak |-> calculate_watch_streaks(history, clock),
     binge_sessions |-> detect_binge_sessions(history),
     genres |-> EmptyStat,
     library_coverage |-> EmptyStat,
     unique_content |-> EmptyStat]

---------------------------------------------------------------------------
(* Bounded inputs *)

\* every list of at most n elements of the sequence alphabet whose elements
\* come in the alphabet's order (one list per multiset)
RECURSIVE Ascending(_, _, _)
Ascending(alphabet, from, n) ==
    IF n = 0 THEN {<<>>}
    ELSE {<<>>} \cup UNION {
             {<<alphabet[k]>> \o rest : rest \in Ascending(alphabet, k, n - 1)}
             : k \in from..Len(alphabet)}

\* the titles of three shows
ShowX == <<88>>
ShowY == <<89>>
ShowZ == <<90>>

Reverse(seq) == [i \in 1..Len(seq) |-> seq[Len(seq) + 1 - i]]

\* the lists above, and each of them reversed
Lists(alphabet, n) ==
    LET asc == Ascending(alphabet, 1, n) IN asc \cup {Reverse(s) : s \in asc}

---------------------------------------------------------------------------
(* generate_wrapped_reports: a run *)

\* the longest fetched history
MaxHistory == 3

Day == SecondsPerDay

\* a history entry of a movie
MovieEntry(user, user_id, rating_key, title, duration, t) ==
    [friendly_name |-> user, user_id |-> user_id, media_type |-> "movie",
     rating_key |-> rating_key, title |-> title, full_title |-> title,
     play_duration |-> duration, date |-> t]

\* a history entry of an episode
EpisodeEntry(user, user_id, rating_key, show_key, show, duration, t) ==
    [friendly_name |-> user, user_id |-> user_id, media_type |-> "episode",
     rating_key |-> rating_key, title |-> <<69>>, full_title |-> show \o <<45, 69>>,
     grandparent_rating_key |-> show_key, grandparent_title |-> show,
     media_index |-> 1, parent_media_index |-> 1,
     play_duration |-> duration, date |-> t]

\* an episode of ShowX as the server lists it for alice
AliceEpisode(rating_key, t) == EpisodeEntry("alice", 1, rating_key, 20, ShowX, 1800, t)

\* the server's log, in the order get_history lists it: a movie of a user
\* named Total, a movie without user_id and play_duration, an episode of bob,
\* an episode watched by nobody known, then alice's music track, movie and
\* three episodes within hours of each other, an episode of hers that has no
\* date, and another episode of the same show watched by bob
RunEntries ==
    <<MovieEntry("Total", 3, 10, <<77>>, 1800, 5 * Day),
      [friendly_name |-> "carol", media_type |-> "movie", rating_key |-> 11,
       title |-> <<79>>, full_title |-> <<79>>, date |-> 0],
      EpisodeEntry("bob", 2, 21, 20, ShowX, 1800, 4 * Day + 3600),
      [user_id |-> 4, media_type |-> "episode",
       rating_key |-> 23, title |-> <<70>>, full_title |-> ShowX \o <<45, 70>>,
       grandparent_rating_key |-> 20, grandparent_title |-> ShowX,
       media_index |-> 2, parent_media_index |-> 1,
       play_duration |-> 1800, date |-> 3 * Day + 7200],
      [friendly_name |-> "alice", user_id |-> 1, media_type |-> "track",
       rating_key |-> 31, title |-> <<84>>, full_title |-> ShowZ \o <<45, 84>>,
       grandparent_rating_key |-> 30, grandparent_title |-> ShowZ,
       play_duration |-> 600, date |-> 4 * Day],
      MovieEntry("alice", 1, 10, <<77>>, 3600, 2 * Day + 100),
      AliceEpisode(21, 3 * Day),
      AliceEpisode(22, 3 * Day + 1800),
      AliceEpisode(23, 3 * Day + 5400),
      [f \in DOMAIN AliceEpisode(22, 0) \ {"date"} |-> AliceEpisode(22, 0)[f]],
      EpisodeEntry("bob", 2, 22, 20, ShowX, 1800, 3 * Day + 3600)>>

\* what get_history can return for a date range: any run of at most
\* MaxHistory consecutive entries of the log
Histories ==
    UNION {{SubSeq(RunEntries, from, from + n - 1) :
               from \in 1..(Len(RunEntries) + 1 - n)} : n \in 0..MaxHistory}

\* the clock of a run: the day of the latest movies
RunClock == 5 * Day + 43200

\* no call of generate_user_report
NoReport == [user |-> "", stats |-> <<>>, user_thumb |-> None]

\* the operations that raise because of the events they are given: the
\* sort of detect_binge_sessions
DataRaises(history) == IF SortRaises(history) THEN {"binge_sessions"} ELSE {}

\* the sets of operations that raise for another reason in one iteration:
\* each try block is entered whatever the ones before it did, so any of the
\* operations called may raise, alone or together with any others
FailSets(ops) == SUBSET ops

\* os.getenv('TAUTULLI_URL'): None when the variable is not set
Getenv == {None, [str |-> "http://tautulli:8181"]}

\* the directories the two os.makedirs calls create
Directories == {"thumbnails", "wrapped_reports"}

\* the state of a run that has not fetched the history yet
RunNotStarted ==
    /\ pc = "start"
    /\ all_history = <<>>
    /\ folded = 0
    /\ user_history = <<>>
    /\ user_stats = <<>>
    /\ user_ids = <<>>
    /\ rankings = <<>>
    /\ next_user = 1
    /\ report = NoReport
    /\ raised = {}
    /\ handed = <<>>
    /\ generated_files = <<>>
    /\ thumbnails = <<>>

Init ==
    /\ now = RunClock
    /\ history_data = <<>>
    /\ called = "none"
    /\ result = <<>>
    /\ RunNotStarted

\* the constructor that raises, or "none": TautulliClient() adds a string to
\* the URL of the environment (TypeError when it is None), WrappedAnalytics
\* and WrappedHTMLGenerator each create a directory (OSError when it cannot
\* be created)
ConstructorRaising(url, creatable) ==
    IF url = None THEN "TautulliClient"
    ELSE IF "thumbnails" \notin creatable THEN "WrappedAnalytics"
    ELSE IF "wrapped_reports" \notin creatable THEN "WrappedHTMLGenerator"
    ELSE "none"

\* client = TautulliClient(); analytics = WrappedAnalytics(client);
\* html_generator = WrappedHTMLGenerator(): no try is around them
Construct ==
    /\ pc = "start"
    /\ \E url \in Getenv, creatable \in SUBSET Directories :
           LET failing == ConstructorRaising(url, creatable)
           IN  /\ pc' = IF failing = "none" THEN "fetch" ELSE "raised"
               /\ raised' = IF failing = "none" THEN {} ELSE {failing}
    /\ UNCHANGED <<now, callvars, all_history, folded, user_history, user_stats,
                   user_ids, rankings, next_user, report, handed, generated_files,
                   thumbnails>>

\* client.get_history(...) returns
FetchHistory ==
    /\ pc = "fetch"
    /\ \E history \in Histories : all_history' = history
    /\ pc' = "fold"
    /\ UNCHANGED <<now, callvars, folded, user_history, user_stats, user_ids, rankings,
                   next_user, report, raised, handed, generated_files, thumbnails>>

\* client.get_history(...) raises: nothing catches it
FetchFails ==
    /\ pc = "fetch"
    /\ pc' = "raised"
    /\ raised' = {"get_history"}
    /\ UNCHANGED <<now, callvars, all_history, folded, user_history, user_stats,
                   user_ids, rankings, next_user, report, handed, generated_files,
                   thumbnails>>

Dicts == [user_history |-> user_history, user_ids |-> user_ids, user_stats |-> user_stats]

\* one iteration of `for entry in all_history`.  No try is around the loop;
\* its body reads the entry with .get and adds play_duration, an integer in
\* every entry the server lists, so it has no raising outcome
FoldEntry ==
    /\ pc = "fold"
    /\ folded < Len(all_history)
    /\ LET dicts == FoldEntryInto(Dicts, all_history[folded + 1])
       IN  /\ user_history' = dicts.user_history
           /\ user_ids' = dicts.user_ids
           /\ user_stats' = dicts.user_stats
    /\ folded' = folded + 1
    /\ UNCHANGED <<now, callvars, pc, all_history, rankings, next_user, report, raised,
                   handed, generated_files, thumbnails>>

\* rankings = analytics.calculate_user_rankings(user_stats): outside any try
\* as well, and total on the records the loop built
CalculateRankings ==
    /\ pc = "fold"
    /\ folded = Len(all_history)
    /\ rankings' = calculate_user_rankings(user_stats)
    /\ pc' = "users"
    /\ UNCHANGED <<now, callvars, all_history, folded, user_history, user_stats,
                   user_ids, next_user, report, raised, handed, generated_files,
                   thumbnails>>

\* the guarded operations that one iteration for the user calls
CalledOps(user) ==
    IF DictHas(user_ids, user) THEN UserOps ELSE UserOps \ {"get_user"}

\* `for user, history in user_history.items()` takes the next user:
\* wrapped_stats is built anew from the user's totals and ranking
StartUser ==
    /\ pc = "users"
    /\ next_user <= Len(user_history)
    /\ LET user == user_history[next_user].key
           stat == IF DictHas(user_stats, user) THEN DictGet(user_stats, user) ELSE <<>>
       IN  report' = [user |-> user,
                      stats |-> HeadlineStats(stat, UserRanking(rankings, user)),
                      user_thumb |-> None]
    /\ raised' = {}
    /\ pc' = "user"
    /\ UNCHANGED <<now, callvars, all_history, folded, user_history, user_stats,
                   user_ids, rankings, next_user, handed, generated_files, thumbnails>>

\* the outcome of the rest of the iteration when the operations in fails
\* raise and the thumbnail cache is left as one of caches
UserDone(user, values, fails, caches) ==
    /\ report' = [user |-> user,
                  stats |-> AssembleUser(values, report.stats, fails),
                  user_thumb |-> UserThumb(user_ids, user, fails)]
    /\ thumbnails' \in caches
    /\ handed' = Append(handed, user)
    /\ generated_files' = IF "render" \in fails THEN generated_files
                          ELSE Append(generated_files, user)
    /\ raised' = fails
    /\ next_user' = next_user + 1
    /\ pc' = "users"

\* the try blocks of the iteration, the rendering of the report included:
\* the sort of detect_binge_sessions raises when the user's events make it,
\* and any of the other guarded operations may raise as well
ProcessUser ==
    /\ pc = "user"
    /\ \E user \in {user_history[next_user].key} :
       \E history \in {user_history[next_user].value} :
       \E values \in {UserValues(Dicts, user, thumbnails, now)} :
       \E partial \in {FilesAfter(values, thumbnails, {"top_watched"}, history)} :
       \E others \in FailSets(CalledOps(user) \ DataRaises(history)) :
           LET fails == DataRaises(history) \cup others
           IN  UserDone(user, values, fails,
                        IF "top_watched" \in fails THEN partial
                        ELSE FilesAfter(values, thumbnails, {}, history))
    /\ UNCHANGED <<now, callvars, all_history, folded, user_history, user_stats,
                   user_ids, rankings>>

\* the outcome of the summary's try block when operation failing raises
\* ("none": nothing raises): the except clause only prints
SummaryDone(failing) ==
    /\ IF failing \in {"none", "render"}
       THEN /\ report' = [user |-> SummaryUser,
                          stats |-> SummaryStats(all_history, user_stats, rankings, now),
                          user_thumb |-> None]
            /\ handed' = Append(handed, SummaryUser)
       ELSE /\ report' = NoReport
            /\ handed' = handed
    /\ generated_files' = IF failing = "none" THEN Append(generated_files, SummaryUser)
                          ELSE generated_files
    /\ raised' = IF failing = "none" THEN {} ELSE {failing}
    /\ pc' = "done"

\* the loop over the users is over: the summary is announced and its try
\* entered, with nothing passed to generate_user_report for it yet
StartSummary ==
    /\ pc = "users"
    /\ next_user > Len(user_history)
    /\ report' = NoReport
    /\ raised' = {}
    /\ pc' = "summary"
    /\ UNCHANGED <<now, callvars, all_history, folded, user_history, user_stats,
                   user_ids, rankings, next_user, handed, generated_files, thumbnails>>

\* the summary report: the try block after the loop
GenerateSummary ==
    /\ pc = "summary"
    /\ \E failing \in SummaryOutcomes(all_history) : SummaryDone(failing)
    /\ UNCHANGED <<now, callvars, all_history, folded, user_history, user_stats,
                   user_ids, rankings, next_user, thumbnails>>

Next ==
    \/ Construct
    \/ FetchHistory
    \/ FetchFails
    \/ FoldEntry
    \/ CalculateRankings
    \/ StartUser
    \/ ProcessUser
    \/ StartSummary
    \/ GenerateSummary

Spec == Init /\ [][Next]_vars

---------------------------------------------------------------------------
(* calculate_watch_streaks applied to bounded event lists *)

MaxStreakEvents == 4

\* event times: 1970-01-03 twice, then days 4, 5, 7, 8 and 9; the list is
\* not in time order
StreakTimes == <<4 * SecondsPerDay + 7, 2 * SecondsPerDay, 2 * SecondsPerDay + 86399,
                 8 * SecondsPerDay, 3 * SecondsPerDay + 3600, 6 * SecondsPerDay + 1,
                 7 * SecondsPerDay>>

StreakEvents == [i \in 1..Len(StreakTimes) |->
                    [date |-> StreakTimes[i], media_type |-> "movie"]]

\* the clock: from the day of the last event to three days after it
StreakClocks == {d * SecondsPerDay + 43200 : d \in 3..11}

InitStreaks ==
    /\ history_data \in Lists(StreakEvents, MaxStreakEvents)
    /\ now \in StreakClocks
    /\ called = "none"
    /\ result = <<>>
    /\ RunNotStarted

CallWatchStreaks ==
    /\ called = "none"
    /\ called' = "calculate_watch_streaks"
    /\ result' = calculate_watch_streaks(history_data, now)
    /\ UNCHANGED <<history_data, now, runvars>>

NextStreaks == CallWatchStreaks

SpecStreaks == InitStreaks /\ [][NextStreaks]_vars

\* calculate_watch_streaks applied to events around the turn of a year
MaxYearEndEvents == 4

\* event times: 1970-12-29, -30 and -31, 1971-01-01 and -02, then 1971-01-04;
\* the list is not in time order
YearEndTimes == <<364 * SecondsPerDay + 5, 362 * SecondsPerDay + 70000,
                  365 * SecondsPerDay, 368 * SecondsPerDay + 86399,
                  363 * SecondsPerDay + 1, 366 * SecondsPerDay + 40000>>

YearEndEvents == [i \in 1..Len(YearEndTimes) |->
                     [date |-> YearEndTimes[i], media_type |-> "episode"]]

\* the clock: from 1970-12-30 to 1971-01-08, so before, on and after the
\* last event
YearEndClocks == {d * SecondsPerDay + 43200 : d \in 363..371}

InitYearEnd ==
    /\ history_data \in Lists(YearEndEvents, MaxYearEndEvents)
    /\ now \in YearEndClocks
    /\ called = "none"
    /\ result = <<>>
    /\ RunNotStarted

SpecYearEnd == InitYearEnd /\ [][NextStreaks]_vars

---------------------------------------------------------------------------
(* detect_binge_sessions applied to bounded event lists *)

MaxBingeEvents == 7

\* an episode of a show watched at time t; its full title names the show
Episode(show, t, n) ==
    [media_type |-> "episode", grandparent_title |-> show, date |-> t,
     full_title |-> show \o <<45, n>>, media_index |-> n, parent_media_index |-> 1]

\* episodes of two shows, among them times 8 hours apart and times 8 hours
\* and a second apart, a movie that carries a show title, and an episode
\* without one; the list is not in time order
BingeEvents ==
    <<Episode(ShowX, 7200, 3),
      Episode(ShowY, 3600, 1),
      Episode(ShowX, 0, 1),
      [media_type |-> "movie", grandparent_title |-> ShowX, date |-> 3600,
       full_title |-> <<77>>],
      Episode(ShowX, 7200 + BingeWindow + 1, 5),
      Episode(ShowX, 3600, 2),
      Episode(ShowY, 7200, 2),
      Episode(ShowX, 7200 + BingeWindow, 4),
      [media_type |-> "episode", date |-> 3600, full_title |-> <<78>>],
      Episode(ShowX, 7200 + 2 * BingeWindow + 1, 6),
      Episode(ShowY, 0, 3)>>

InitBinge ==
    /\ history_data \in Lists(BingeEvents, MaxBingeEvents)
    /\ now = 0
    /\ called = "none"
    /\ result = <<>>
    /\ RunNotStarted

CallBingeSessions ==
    /\ called = "none"
    /\ called' = "detect_binge_sessions"
    /\ result' = IF SortRaises(history_data) THEN TypeError
                  ELSE detect_binge_sessions(history_data)
    /\ UNCHANGED <<history_data, now, runvars>>

NextBinge == CallBingeSessions

SpecBinge == InitBinge /\ [][NextBinge]_vars

---------------------------------------------------------------------------
(* Properties of calculate_watch_streaks *)

StreaksCalled == called = "calculate_watch_streaks"

\* the distinct calendar dates of the events
ActiveDates == {DateOf(history_data[i].date) : i \in Indices(history_data)}

\* d .. d+k-1 are all active
IsRun(d, k) == \A x \in d..(d + k - 1) : x \in ActiveDates

\* the length of the longest run of consecutive active dates
LongestRun ==
    CHOOSE k \in 1..Cardinality(ActiveDates) :
        /\ \E d \in ActiveDates : IsRun(d, k)
        /\ \A d \in ActiveDates : ~IsRun(d, k + 1)

LastActiveDate == CHOOSE d \in ActiveDates : \A e \in ActiveDates : e <= d

\* the length of the run of consecutive active dates that ends at the last one
LastRun ==
    CHOOSE k \in 1..Cardinality(ActiveDates) :
        /\ IsRun(LastActiveDate - k + 1, k)
        /\ (LastActiveDate - k) \notin ActiveDates

\* C5: for a non-empty event list, longest_streak is the length of the
\* longest maximal run of consecutive calendar dates among the distinct dates
\* of the events, a run that ends at the last date included.
C5_LongestStreak ==
    (StreaksCalled /\ history_data # <<>>) => result.longest_streak = LongestRun

\* a gap, then a run of three that ends at the last date and is the longest
C5_Witness ==
    /\ StreaksCalled
    /\ history_data # <<>>
    /\ Cardinality(ActiveDates) = 4
    /\ LastRun = 3
    /\ result.longest_streak = 3

\* C6: on the empty list the record is all zero: longest streak 0, current
\* streak 0 and active-days count 0.
C6_EmptyAllZero ==
    (StreaksCalled /\ history_data = <<>>) =>
        /\ result.longest_streak = 0
        /\ result.current_streak = 0
        /\ "total_active_days" \in DOMAIN result
        /\ result.total_active_days = 0

\* C7: for a non-empty event list, current_streak is the length of the run
\* that ends at the latest active date when that date is today or yesterday,
\* and 0 when it is more than one day before today.
C7_CurrentStreak ==
    (StreaksCalled /\ history_data # <<>>) =>
        LET age == DateOf(now) - LastActiveDate
        IN  /\ age \in {0, 1} => result.current_streak = LastRun
            /\ age > 1 => result.current_streak = 0

\* the latest active date is yesterday and ends a run of two
C7_Witness ==
    /\ StreaksCalled
    /\ history_data # <<>>
    /\ DateOf(now) - LastActiveDate = 1
    /\ LastRun = 2
    /\ result.current_streak = 2

\* C29: for every non-empty event list and every clock, 1 <= longest_streak
\* <= total_active_days, 0 <= current_streak <= longest_streak, and the
\* reported start and end are the printed forms of two active dates that lie
\* longest_streak - 1 days apart, the first and last day of a run.
C29_StreakBounds ==
    (StreaksCalled /\ history_data # <<>>) =>
        /\ 1 <= result.longest_streak
        /\ result.longest_streak <= result.total_active_days
        /\ 0 <= result.current_streak
        /\ result.current_streak <= result.longest_streak
        /\ \E d \in ActiveDates :
               /\ IsRun(d, result.longest_streak)
               /\ result.streak_start = StrftimeBd(d)
               /\ result.streak_end = StrftimeBd(d + result.longest_streak - 1)

\* a streak of three days from December into January, then a gap and one
\* more day that is today: longest 3, current 1, four active days
C29_Witness ==
    /\ StreaksCalled
    /\ result.longest_streak = 3
    /\ result.current_streak = 1
    /\ result.total_active_days = 4
    /\ result.streak_start = [month |-> 12, day |-> 31]
    /\ result.streak_end = [month |-> 1, day |-> 2]
    /\ DateOf(now) = LastActiveDate

---------------------------------------------------------------------------
(* Properties of detect_binge_sessions *)

BingeCalled == called = "detect_binge_sessions"

\* the shows that have an episode in the list
Shows == {history_data[i].grandparent_title :
             i \in {j \in Indices(history_data) : IsShowEpisode(history_data[j])}}

\* the watch times of a show's episodes, in time order
ShowTimes(show) ==
    LET idx == {i \in Indices(history_data) :
                   /\ IsShowEpisode(history_data[i])
                   /\ history_data[i].grandparent_title = show}
        RECURSIVE Times(_)
        Times(I) ==
            IF I = {} THEN <<>>
            ELSE LET m == CHOOSE i \in I :
                              \A j \in I : history_data[i].date <= history_data[j].date
                 IN  <<history_data[m].date>> \o Times(I \ {m})
    IN  Times(idx)

\* the maximal runs of a time-ordered list in which consecutive times are at
\* most 28800 s apart, as pairs of first and last index
MaximalRuns(times) ==
    {r \in Indices(times) \X Indices(times) :
        /\ r[1] <= r[2]
        /\ \A i \in r[1]..(r[2] - 1) : times[i + 1] - times[i] <= 28800
        /\ r[1] = 1 \/ times[r[1]] - times[r[1] - 1] > 28800
        /\ r[2] = Len(times) \/ times[r[2] + 1] - times[r[2]] > 28800}

SessionTimes(session) ==
    [i \in Indices(session.episodes) |-> session.episodes[i].date]

\* C8: every returned session holds at least 3 episode events, all of the
\* session's series, in non-decreasing time order with consecutive episodes
\* at most 28800 s apart, and episode_count is the length of the episode list.
C8_SessionShape ==
    BingeCalled =>
        \A s \in Indices(result) :
            LET eps == result[s].episodes
            IN  /\ Len(eps) >= 3
                /\ result[s].episode_count = Len(eps)
                /\ \A e \in Indices(eps) :
                       \E i \in Indices(history_data) :
                           /\ IsShowEpisode(history_data[i])
                           /\ history_data[i].grandparent_title = result[s].show
                           /\ history_data[i].date = eps[e].date
                           /\ history_data[i].full_title = eps[e].title
                /\ \A e \in 1..(Len(eps) - 1) :
                       /\ eps[e].date <= eps[e + 1].date
                       /\ eps[e + 1].date - eps[e].date <= 28800

\* a session is returned while episodes of both shows, a movie and an episode
\* 28801 s after the session's last are in the list
C8_Witness ==
    /\ BingeCalled
    /\ Len(result) >= 1
    /\ Cardinality(Shows) = 2
    /\ \E i \in Indices(history_data) : history_data[i].media_type = "movie"
    /\ \E i \in Indices(history_data) :
           /\ IsShowEpisode(history_data[i])
           /\ history_data[i].grandparent_title = result[1].show
           /\ history_data[i].date
                  - result[1].episodes[Len(result[1].episodes)].date = 28801

\* the example of the specification: X at 0, 3600, 7200 and 7200 + 28801
\* gives one session of 3
C9_Example ==
    (BingeCalled /\ ShowTimes(ShowX) = <<0, 3600, 7200, 36001>>) =>
        /\ Cardinality({s \in Indices(result) : result[s].show = ShowX}) = 1
        /\ \A s \in Indices(result) :
               result[s].show = ShowX => SessionTimes(result[s]) = <<0, 3600, 7200>>

\* C9: for each series the returned sessions are exactly the maximal runs,
\* of at least 3 episodes, of its time-sorted episodes in which consecutive
\* episodes are at most 28800 s apart, whether a gap or the end of the list
\* closes the run.
C9_ExactlyMaximalRuns ==
    BingeCalled =>
        /\ C9_Example
        /\ \A s \in Indices(result) : result[s].show \in Shows
        /\ \A show \in Shows :
               LET times == ShowTimes(show)
                   runs == {r \in MaximalRuns(times) : r[2] - r[1] + 1 >= 3}
                   mine == {s \in Indices(result) : result[s].show = show}
               IN  /\ Cardinality(mine) = Cardinality(runs)
                   /\ {SessionTimes(result[s]) : s \in mine}
                          = {SubSeq(times, r[1], r[2]) : r \in runs}

\* one series emits two sessions: a run closed by a gap of 28801 s and a run
\* closed by the end of the list, one of them holding a gap of exactly 28800 s
C9_Witness ==
    /\ BingeCalled
    /\ Len(result) = 2
    /\ result[1].show = result[2].show
    /\ \E s \in 1..2 : \E e \in 1..(Len(result[s].episodes) - 1) :
           result[s].episodes[e + 1].date - result[s].episodes[e].date = 28800

\* C10: the returned list is ordered by episode_count, non-increasing, across
\* all series.
C10_SortedByCount ==
    BingeCalled =>
        \A s \in 1..(Len(result) - 1) :
            result[s].episode_count >= result[s + 1].episode_count

\* two sessions of different series and different sizes, the larger one from
\* the series that comes second in the list
C10_Witness ==
    /\ BingeCalled
    /\ Len(result) = 2
    /\ result[1].show # result[2].show
    /\ result[1].episode_count > result[2].episode_count
    /\ ShowKeys(history_data, 1, <<>>)[1] = result[2].show


---------------------------------------------------------------------------
(* Properties of a run *)

\* the rankings have been calculated
RankingsCalculated == pc \in {"users", "done"}

\* the users with at least one tracked event in the fetched history
TrackedUsers ==
    {all_history[i].friendly_name : i \in {j \in Indices(all_history) :
                                              IsTracked(all_history[j])}}

\* C1: the ranking of a fetched history has exactly one entry per user with a
\* tracked event, its ranks are 1..n in order, and total_time does not
\* increase with the rank
C1_OneEntryPerTrackedUser ==
    RankingsCalculated =>
        /\ Len(rankings) = Cardinality(TrackedUsers)
        /\ {rankings[i].user : i \in Indices(rankings)} = TrackedUsers
        /\ \A i \in Indices(rankings) : rankings[i].rank = i
        /\ \A i, j \in Indices(rankings) :
               i < j => rankings[i].total_time >= rankings[j].total_time

\* the fetched history without the entries that are untracked or have no user
TrackedOnly(history) == SelectSeq(history, IsTracked)

\* the latest report is the one of a user
UserReported == report.user \notin {NoReport.user, SummaryUser}

\* the latest report is the summary
SummaryReported == report.user = SummaryUser


\* C2: no statistic of a report, of a user or of the summary, depends on the
\* entries that are untracked or have no user: the run on the history without
\* them computes the same statistics
C2_UntrackedIgnored ==
    LET tracked == TrackedOnly(all_history)
        dicts == FoldHistory(tracked, Len(tracked))
    IN  /\ (RankingsCalculated /\ UserReported) =>
               /\ DictHas(dicts.user_history, report.user)
               /\ \A values \in {UserValues(dicts, report.user, thumbnails, now)} :
                      \A name \in UserStats \ raised :
                          report.stats[name] = Guarded(values, name, {})
        /\ SummaryReported =>
               \A name \in {"first_last", "streak", "binge_sessions"} :
                   report.stats[name] =
                       SummaryStats(tracked, dicts.user_stats, rankings, now)[name]

---------------------------------------------------------------------------
(* find_unique_content applied to bounded per-user maps *)

\* the longest history of the first user and of the second
MaxUniqueEvents == 12
MaxOtherEvents == 3

\* a movie with the given item key
Movie(rating_key) ==
    [media_type |-> "movie", rating_key |-> rating_key, title |-> <<77, rating_key>>]

\* an episode of the series with the given key
SeriesEpisode(series_key, rating_key, show) ==
    [media_type |-> "episode", rating_key |-> rating_key, title |-> <<69, rating_key>>,
     grandparent_rating_key |-> series_key, grandparent_title |-> show]

\* the events the histories are cut from: movies 1 and 3, episodes of series
\* 2 and 4, a movie whose series key is 0, an event without keys, a second
\* episode of series 2 under another show title, then movies 6 to 17
UniqueEvents ==
    <<Movie(1), SeriesEpisode(2, 52, ShowX), Movie(3), SeriesEpisode(4, 54, ShowY),
      [media_type |-> "movie", grandparent_rating_key |-> 0, rating_key |-> 5,
       title |-> <<77, 5>>],
      [media_type |-> "movie", title |-> <<77>>],
      SeriesEpisode(2, 53, ShowZ)>>
    \o [i \in 1..12 |-> Movie(i + 5)]

\* the runs of at most n consecutive events
Windows(events, n) ==
    {SubSeq(events, p[1], p[2]) :
        p \in {q \in (1..Len(events)) \X (0..Len(events)) :
                  q[2] - q[1] + 1 \in 0..n}}

\* the history of a third user, when there is one
ThirdHistories == {<<>>, <<Movie(3), Movie(9)>>}

\* the per-user maps: users A and B, and C when it has events
UniqueMaps ==
    {<<[key |-> "A", value |-> a], [key |-> "B", value |-> b]>>
        \o (IF c = <<>> THEN <<>> ELSE <<[key |-> "C", value |-> c]>>) :
        a \in Windows(UniqueEvents, MaxUniqueEvents),
        b \in Windows(UniqueEvents, MaxOtherEvents),
        c \in ThirdHistories}

\* the target: a user of the map, or one that is not in it
UniqueTargets == {"A", "B", "Z"}

InitUnique ==
    /\ history_data \in [all_users_history : UniqueMaps, target_user : UniqueTargets]
    /\ now = 0
    /\ called = "none"
    /\ result = <<>>
    /\ RunNotStarted

CallUniqueContent ==
    /\ called = "none"
    /\ called' = "find_unique_content"
    /\ result' = find_unique_content(history_data.all_users_history,
                                     history_data.target_user)
    /\ UNCHANGED <<history_data, now, runvars>>

NextUnique == CallUniqueContent

SpecUnique == InitUnique /\ [][NextUnique]_vars

\* find_unique_content called for every user of a map in turn, as the report
\* of each user does with the one map of the run
MaxSharedEvents == 5

SharedMaps ==
    {<<[key |-> "A", value |-> a], [key |-> "B", value |-> b]>>
        \o (IF c = <<>> THEN <<>> ELSE <<[key |-> "C", value |-> c]>>) :
        a \in Windows(UniqueEvents, MaxSharedEvents),
        b \in Windows(UniqueEvents, MaxOtherEvents),
        c \in ThirdHistories}

InitEachUser ==
    /\ history_data \in [all_users_history : SharedMaps]
    /\ now = 0
    /\ called = "none"
    /\ result = <<>>
    /\ RunNotStarted

\* the next user of the map, in the order of the map; result lists, per user
\* reported so far, the record returned and the key set it was built from
CallUniqueContentOfNextUser ==
    /\ Len(result) < Len(history_data.all_users_history)
    /\ called' = "find_unique_content"
    /\ LET user == history_data.all_users_history[Len(result) + 1].key
       IN  result' = Append(result,
               [user |-> user,
                unique_content |-> find_unique_content(history_data.all_users_history, user),
                unique_keys |-> unique_keys(history_data.all_users_history, user)])
    /\ UNCHANGED <<history_data, now, runvars>>

NextEachUser == CallUniqueContentOfNextUser

SpecEachUser == InitEachUser /\ [][NextEachUser]_vars


---------------------------------------------------------------------------
(* Properties of find_unique_content *)

UniqueCalled == called = "find_unique_content"

\* whether the map has the user, and the user's events
HasEvents(user) == \E i \in Indices(history_data.all_users_history) :
                       history_data.all_users_history[i].key = user

EventsOf(user) ==
    history_data.all_users_history[
        CHOOSE i \in Indices(history_data.all_users_history) :
            history_data.all_users_history[i].key = user].value

\* an event's content key: its series key when it has one (a key of 0 is
\* none), else its item key; 0 when it has neither
SeriesOrItemKey(event) ==
    IF "grandparent_rating_key" \in DOMAIN event /\ event.grandparent_rating_key # 0
    THEN event.grandparent_rating_key
    ELSE IF "rating_key" \in DOMAIN event THEN event.rating_key ELSE 0

\* the content keys of a user's events
KeysOfUser(user) ==
    {SeriesOrItemKey(EventsOf(user)[i]) : i \in Indices(EventsOf(user))} \ {0}

\* the target's content keys that no other user has
OnlyTargetKeys ==
    KeysOfUser(history_data.target_user)
        \ UNION {KeysOfUser(history_data.all_users_history[i].key) :
                    i \in {j \in Indices(history_data.all_users_history) :
                              history_data.all_users_history[j].key
                                  # history_data.target_user}}

\* the title and type of an event: the show's title when it has one
TitleAndType(event) ==
    [title |-> IF HasShow(event) THEN event.grandparent_title
               ELSE Get(event, "title", None),
     type |-> Get(event, "media_type", None)]

\* the items of the keys in a set: each from the target's first event of
\* the key
ItemsOfKeys(keys) ==
    LET events == EventsOf(history_data.target_user)
    IN  {TitleAndType(events[i]) :
            i \in {j \in Indices(events) :
                      /\ SeriesOrItemKey(events[j]) \in keys
                      /\ \A h \in 1..(j - 1) :
                             SeriesOrItemKey(events[h]) # SeriesOrItemKey(events[j])}}

\* A watches {1, 2, 3} and B watches {2, 3, 4}
C11_Example ==
    (/\ UniqueCalled
     /\ history_data.target_user = "A"
     /\ history_data.all_users_history =
            <<[key |-> "A", value |-> SubSeq(UniqueEvents, 1, 3)],
              [key |-> "B", value |-> SubSeq(UniqueEvents, 2, 4)]>>)
        => result = [unique_items |-> <<[title |-> <<77, 1>>, type |-> "movie"]>>,
                     count |-> 1]

\* C11: for a target that is in the map, count is the number of content keys
\* of the target's events that no other user's events have, and the items are
\* at most 10, each the item of one of those keys (as many as there are such
\* keys when these are at most 10)
C11_UniqueContent ==
    /\ (UniqueCalled /\ HasEvents(history_data.target_user)) =>
           /\ result.count = Cardinality(OnlyTargetKeys)
           /\ Len(result.unique_items) <= 10
           /\ Len(result.unique_items) = IF result.count < 10 THEN result.count ELSE 10
           /\ \A i \in Indices(result.unique_items) :
                  result.unique_items[i] \in ItemsOfKeys(OnlyTargetKeys)
           /\ \A i, j \in Indices(result.unique_items) :
                  i # j => result.unique_items[i] # result.unique_items[j]
    /\ C11_Example

\* the target has more than eleven keys, eleven of them its own, and shares
\* one with both other users: only ten of the eleven items are returned
C11_Witness ==
    /\ UniqueCalled
    /\ history_data.target_user = "A"
    /\ result.count = 11
    /\ Len(result.unique_items) = 10
    /\ Cardinality(KeysOfUser("A")) > 11
    /\ HasEvents("C")
    /\ KeysOfUser("B") \cap KeysOfUser("A") # {}

\* C12: a target that is not in the map, or has an empty list there, gets an
\* empty item list and a count of 0
C12_EmptyResult ==
    (UniqueCalled /\ (HasEvents(history_data.target_user)
                         => EventsOf(history_data.target_user) = <<>>)) =>
        /\ result.unique_items = <<>>
        /\ "count" \in DOMAIN result
        /\ result.count = 0

\* the keys of a reported user's unique set
ReportedUniqueKeys(i) == {result[i].unique_keys[k] : k \in Indices(result[i].unique_keys)}

\* C30: the unique-content key sets of two distinct users are disjoint, and
\* no key of a user's unique set is the content key of an event of any other
\* user of the map.
C30_UniqueSetsDisjoint ==
    /\ \A i, j \in Indices(result) :
           i # j => ReportedUniqueKeys(i) \cap ReportedUniqueKeys(j) = {}
    /\ \A i \in Indices(result) :
           \A u \in Indices(history_data.all_users_history) :
               history_data.all_users_history[u].key # result[i].user =>
                   \A e \in Indices(history_data.all_users_history[u].value) :
                       SeriesOrItemKey(history_data.all_users_history[u].value[e])
                           \notin ReportedUniqueKeys(i)

\* three users reported: A and B each have a key of their own, A and B share
\* a key, and A shares another with C only
C30_Witness ==
    /\ Len(result) = 3
    /\ ReportedUniqueKeys(1) # {}
    /\ ReportedUniqueKeys(2) # {}
    /\ KeysOfUser("A") \cap KeysOfUser("B") # {}
    /\ (KeysOfUser("A") \cap KeysOfUser("C")) \ KeysOfUser("B") # {}
    /\ result[1].unique_content.count = Cardinality(ReportedUniqueKeys(1))

---------------------------------------------------------------------------
(* calculate_library_coverage applied to bounded histories and libraries *)

\* the longest history handed to calculate_library_coverage
MaxCoverageEvents == 3

\* the largest item count a library section reports
MaxLibraryItems == 2

\* two movies, an episode of each of two series, a track, a movie whose key
\* is 0 and an event without a media type
CoverageEvents ==
    <<Movie(1), Movie(3), SeriesEpisode(2, 52, ShowX), SeriesEpisode(4, 54, ShowY),
      [media_type |-> "track", grandparent_rating_key |-> 7, rating_key |-> 57,
       title |-> <<84>>],
      [media_type |-> "movie", rating_key |-> 0, title |-> <<77>>],
      [rating_key |-> 9, title |-> <<78>>]>>

\* what client.get_libraries() returns: a movie, a show and a music section
CoverageLibraries ==
    [data |-> <<[section_id |-> 1, section_name |-> "Movies", section_type |-> "movie"],
                [section_id |-> 2, section_name |-> "TV", section_type |-> "show"],
                [section_id |-> 3, section_name |-> "Music", section_type |-> "artist"]>>]

\* what client.get_library_media_info(id) may do: report a total, answer
\* without one, or raise
MediaInfoAnswers ==
    {[ok |-> TRUE, response |-> [data |-> [recordsTotal |-> n]]] :
        n \in 0..MaxLibraryItems}
    \cup {[ok |-> TRUE, response |-> [result |-> "success"]], [ok |-> FALSE]}

InitCoverage ==
    /\ history_data \in [history : Ascending(CoverageEvents, 1, MaxCoverageEvents),
                         media_info : [1..3 -> MediaInfoAnswers]]
    /\ now = 0
    /\ called = "none"
    /\ result = <<>>
    /\ RunNotStarted

CallLibraryCoverage ==
    /\ called = "none"
    /\ called' = "calculate_library_coverage"
    /\ result' = calculate_library_coverage(history_data.history, CoverageLibraries,
                                            history_data.media_info)
    /\ UNCHANGED <<history_data, now, runvars>>

NextCoverage == CallLibraryCoverage

SpecCoverage == InitCoverage /\ [][NextCoverage]_vars

---------------------------------------------------------------------------
(* Properties of calculate_library_coverage *)

CoverageCalled == called = "calculate_library_coverage"

\* C13: each library's percentage (in tenths) lies between 0 and 100, and is
\* 0 when the library's total is 0
C13_PercentageInRange ==
    CoverageCalled =>
        \A i \in Indices(result.libraries) :
            /\ result.libraries[i].percentage \in 0..1000
            /\ result.libraries[i].total = 0 => result.libraries[i].percentage = 0

\* whether the size lookup of the section of that name succeeds
SectionAnswers(name) ==
    \E l \in Indices(CoverageLibraries.data) :
        /\ CoverageLibraries.data[l].section_name = name
        /\ history_data.media_info[CoverageLibraries.data[l].section_id].ok

\* the lookups with an empty answer in place of each failure
MediaInfoWithoutFailure ==
    [id \in DOMAIN history_data.media_info |->
        IF history_data.media_info[id].ok THEN history_data.media_info[id]
        ELSE [ok |-> TRUE, response |-> [result |-> "success"]]]

\* C24: the result has, in the order of the libraries, exactly the sections
\* whose size lookup does not fail, each with the values it has when no
\* lookup fails
C24_FailedSectionOmitted ==
    CoverageCalled =>
        /\ [i \in Indices(result.libraries) |-> result.libraries[i].name] =
               SelectSeq([l \in Indices(CoverageLibraries.data) |->
                             CoverageLibraries.data[l].section_name],
                         SectionAnswers)
        /\ result.libraries =
               SelectSeq(calculate_library_coverage(history_data.history, CoverageLibraries,
                                                    MediaInfoWithoutFailure).libraries,
                         LAMBDA entry : SectionAnswers(entry.name))

\* the lookup of the second section fails: the first and the third are
\* reported, the third with a watched item
C24_Witness ==
    /\ CoverageCalled
    /\ ~history_data.media_info[2].ok
    /\ Len(result.libraries) = 2
    /\ result.libraries[1].name = "Movies"
    /\ result.libraries[2].name = "Music"
    /\ result.libraries[2].watched = 1
    /\ result.libraries[2].total = MaxLibraryItems

---------------------------------------------------------------------------
(* get_peak_watching_hours and get_platform_breakdown applied to bounded
   responses *)

\* the largest duration in a response
MaxSeconds == 2

\* the categories of an hour-of-day response
HourLabels ==
    <<"00", "01", "02", "03", "04", "05", "06", "07", "08", "09", "10", "11",
      "12", "13", "14", "15", "16", "17", "18", "19", "20", "21", "22", "23">>

\* 24 hourly values: those given at hours 0, 6, 12 and 18, 0 elsewhere
HourValues(night, morning, afternoon, evening) ==
    [h \in 1..24 |-> IF h = 1 THEN night
                     ELSE IF h = 7 THEN morning
                     ELSE IF h = 13 THEN afternoon
                     ELSE IF h = 19 THEN evening ELSE 0]

\* a second series: without data, with one value, or with a value at hour 23
\* and a 25th value
SecondSeries ==
    {[name |-> "TV"],
     [name |-> "TV", data |-> <<1>>],
     [name |-> "TV", data |-> [h \in 1..25 |-> IF h = 24 THEN 1 ELSE IF h = 25 THEN 5 ELSE 0]],
     [name |-> "TV", data |-> [h \in 1..25 |-> IF h = 25 THEN 5 ELSE 0]]}

\* what client.get_plays_by_hourofday may return
HourResponses ==
    {[data |-> [categories |-> HourLabels,
                series |-> <<[name |-> "Movies", data |-> HourValues(n, m, a, e)], tv>>]] :
        n \in 0..MaxSeconds, m \in 0..MaxSeconds, a \in 0..MaxSeconds,
        e \in 0..MaxSeconds, tv \in SecondSeries}

\* every sequence of at most n values up to MaxSeconds
RECURSIVE ValueLists(_)
ValueLists(n) ==
    IF n = 0 THEN {<<>>}
    ELSE {<<>>} \cup {<<v>> \o rest : v \in 0..MaxSeconds, rest \in ValueLists(n - 1)}

\* what client.get_plays_by_top_10_platforms may return: up to three
\* categories (one platform possibly twice) and one or two series
PlatformResponses ==
    {[data |-> [categories |-> categories,
                series |-> <<[name |-> "Movies", data |-> values]>> \o more]] :
        categories \in {<<>>, <<"Chrome">>, <<"Chrome", "Roku">>,
                        <<"Chrome", "Roku", "Chrome">>},
        values \in ValueLists(3),
        more \in {<<>>, <<[name |-> "TV"]>>, <<[name |-> "TV", data |-> <<0, 2, 1>>]>>}}
    \cup {[result |-> "success"], [data |-> [categories |-> <<"Chrome">>]]}

\* the two responses of one user: either may be any of the above while the
\* other is empty
InitPeak ==
    /\ history_data \in
           [hourofday : HourResponses, platforms : {[result |-> "success"]}]
           \cup [hourofday : {[result |-> "success"]}, platforms : PlatformResponses]
    /\ now = 0
    /\ called = "none"
    /\ result = <<>>
    /\ RunNotStarted

CallPeakWatchingHours ==
    /\ called = "none"
    /\ called' = "get_peak_watching_hours"
    /\ result' = get_peak_watching_hours(history_data.hourofday)
    /\ UNCHANGED <<history_data, now, runvars>>

CallPlatformBreakdown ==
    /\ called = "none"
    /\ called' = "get_platform_breakdown"
    /\ result' = get_platform_breakdown(history_data.platforms)
    /\ UNCHANGED <<history_data, now, runvars>>

NextPeak == CallPeakWatchingHours \/ CallPlatformBreakdown

SpecPeak == InitPeak /\ [][NextPeak]_vars

---------------------------------------------------------------------------
(* Properties of get_peak_watching_hours and get_platform_breakdown *)

\* the four bands of the day
Bands == {"morning", "afternoon", "evening", "night"}

\* the series of the hour-of-day response
ResponseSeries == Get(Get(history_data.hourofday, "data", <<>>), "series", <<>>)

\* C14: each band percentage is a fraction between 0 and 100, each platform
\* percentage (in tenths) lies between 0 and 100, and all of them are 0 when
\* the summed total is 0
C14_PercentagesInRange ==
    /\ called = "get_peak_watching_hours" =>
           \A band \in Bands :
               LET percentage == result.distribution[band].percentage
               IN  /\ percentage.den > 0
                   /\ percentage.num >= 0
                   /\ percentage.num <= 100 * percentage.den
                   /\ Sum(result.hourly_data) = 0 => percentage.num = 0
    /\ called = "get_platform_breakdown" =>
           \A i \in Indices(result.platforms) :
               /\ result.platforms[i].percentage \in 0..1000
               /\ Sum([j \in Indices(result.platforms) |-> result.platforms[j].seconds]) = 0
                      => result.platforms[i].percentage = 0

\* the hours of the day sum to 0 although a series carries a 25th value
C14_Witness ==
    /\ called = "get_peak_watching_hours"
    /\ Sum(result.hourly_data) = 0
    /\ Len(ResponseSeries) = 2
    /\ Len(Get(ResponseSeries[2], "data", <<>>)) = 25
    /\ \A band \in Bands : result.distribution[band].percentage.num = 0

\* the values the series of the response have for the hour, summed
BucketOf(hour) ==
    Sum([k \in Indices(ResponseSeries) |->
            IF hour + 1 <= Len(Get(ResponseSeries[k], "data", <<>>))
            THEN ResponseSeries[k].data[hour + 1] ELSE 0])

\* C25: the 24 hourly values are the sums of the series; peak_value is the
\* largest of them and peak_hour the earliest hour that has it (hour 0 when
\* there is no data)
C25_PeakIsFirstMax ==
    called = "get_peak_watching_hours" =>
        /\ Len(result.hourly_data) = 24
        /\ \A hour \in 0..23 : result.hourly_data[hour + 1] = BucketOf(hour)
        /\ result.peak_hour \in 0..23
        /\ BucketOf(result.peak_hour) = result.peak_value
        /\ \A hour \in 0..23 : BucketOf(hour) <= result.peak_value
        /\ \A hour \in 0..(result.peak_hour - 1) : BucketOf(hour) < result.peak_value
        /\ (\A hour \in 0..23 : BucketOf(hour) = 0) => result.peak_hour = 0

\* hours 6 and 18 share the largest value and hour 0 has a smaller one: the
\* peak is hour 6
C25_Witness ==
    /\ called = "get_peak_watching_hours"
    /\ result.peak_hour = 6
    /\ result.peak_value = MaxSeconds
    /\ BucketOf(18) = MaxSeconds
    /\ BucketOf(0) = 1

---------------------------------------------------------------------------
(* get_top_watched_items applied to bounded histories and limits *)

\* the longest history handed to get_top_watched_items
MaxTopEvents == 3

\* the largest limit
MaxLimit == 2

\* a title of n characters that starts with the given one
LongTitle(first, n) == [i \in 1..n |-> IF i = 1 THEN first ELSE 97]

\* a movie with a title and a play duration
TitledMovie(rating_key, title, play_duration) ==
    [media_type |-> "movie", rating_key |-> rating_key, title |-> title,
     play_duration |-> play_duration]

\* an episode or track of a series or artist
Child(media_type, series_key, rating_key, show, play_duration) ==
    [media_type |-> media_type, grandparent_rating_key |-> series_key,
     rating_key |-> rating_key, grandparent_title |-> show, title |-> <<69>>,
     play_duration |-> play_duration]

\* movie 10 under a title of 36 characters and under one of 37, movie 11
\* with a title of 40, two episodes of series 20, an episode of series 20
\* without a show title, two tracks of artist 30, a movie without a play
\* duration, and an event without a media type
TopEvents ==
    <<TitledMovie(10, LongTitle(65, TitleLimit), 3),
      TitledMovie(10, LongTitle(66, TitleLimit + 1), 2),
      TitledMovie(11, LongTitle(67, TitleLimit + 4), 5),
      Child("episode", 20, 21, ShowX, 2),
      Child("episode", 20, 22, ShowX, 2),
      [media_type |-> "episode", grandparent_rating_key |-> 20, rating_key |-> 23,
       title |-> <<69>>, play_duration |-> 9],
      Child("track", 30, 29, ShowY, 1),
      Child("track", 30, 31, ShowY, 4),
      [media_type |-> "movie", rating_key |-> 12, title |-> <<68>>],
      [rating_key |-> 13, title |-> <<70>>, play_duration |-> 4]>>

InitTop ==
    /\ history_data \in [history : Lists(TopEvents, MaxTopEvents), limit : 0..MaxLimit]
    /\ now = 0
    /\ called = "none"
    /\ result = <<>>
    /\ RunNotStarted

\* the thumbnail cache is empty before the call; result is the returned
\* list with the cache afterwards, which is the cache the call leaves
CallTopWatchedItems ==
    /\ called = "none"
    /\ called' = "get_top_watched_items"
    /\ result' = get_top_watched_items(history_data.history, history_data.limit,
                                       thumbnails, ServerImage)
    /\ thumbnails' = get_top_watched_items(history_data.history, history_data.limit,
                                           thumbnails, ServerImage).files
    /\ UNCHANGED <<history_data, now, pc, all_history, folded, user_history,
                   user_stats, user_ids, rankings, next_user, report, raised,
                   handed, generated_files>>

NextTop == CallTopWatchedItems

SpecTop == InitTop /\ [][NextTop]_vars

---------------------------------------------------------------------------
(* Properties of get_top_watched_items *)

TopCalled == called = "get_top_watched_items"

\* an event's content key: the series key of an episode, the item key of a
\* movie, a track or anything else; 0 when it has none
SeriesKeyOfEpisode(event) ==
    IF "media_type" \in DOMAIN event /\ event.media_type = "episode"
    THEN Get(event, "grandparent_rating_key", 0)
    ELSE Get(event, "rating_key", 0)

\* the content keys of the history
TopKeys ==
    {SeriesKeyOfEpisode(history_data.history[i]) : i \in Indices(history_data.history)}
        \ {0}

\* the play durations of the events of a content key, summed
KeyDuration(key) ==
    Sum([i \in Indices(history_data.history) |->
            IF SeriesKeyOfEpisode(history_data.history[i]) = key
            THEN Get(history_data.history[i], "play_duration", 0) ELSE 0])

\* the keys of the returned entries
ReturnedKeys == {result.result[i].rating_key : i \in Indices(result.result)}

\* at most limit entries, in non-increasing order of duration
TopBoundedAndSorted ==
    TopCalled =>
        /\ Len(result.result) <= history_data.limit
        /\ \A i \in 1..(Len(result.result) - 1) :
               result.result[i].duration >= result.result[i + 1].duration

\* C15: at most limit entries, in non-increasing order of duration, each
\* with the summed play duration of the events of its content key, and no
\* content key left out has a larger sum than a returned one
C15_TopWatched ==
    /\ TopBoundedAndSorted
    /\ TopCalled =>
           /\ \A i \in Indices(result.result) :
                  result.result[i].duration = KeyDuration(result.result[i].rating_key)
           /\ \A key \in TopKeys \ ReturnedKeys :
                  \A i \in Indices(result.result) :
                      KeyDuration(key) <= result.result[i].duration

\* the events that give an entry its key, in the order of the history
EventsOfEntry(entry) ==
    SelectSeq(history_data.history,
              LAMBDA event : HasKeyAndTitle(event) /\ TopKey(event) = entry.rating_key)

\* the source title of an entry: the title (the show's, for an episode or a
\* track) of the last event of its key
SourceTitle(entry) ==
    LET event == EventsOfEntry(entry)[Len(EventsOfEntry(entry))]
    IN  IF "media_type" \in DOMAIN event /\ event.media_type \in {"episode", "track"}
        THEN event.grandparent_title ELSE event.title

\* C16: an entry's title is its source title when that has at most 36
\* characters, else the first 36 characters of it followed by three dots
C16_TitleTruncated ==
    TopCalled =>
        \A i \in Indices(result.result) :
            LET source == SourceTitle(result.result[i])
                title == result.result[i].title
            IN  IF Len(source) <= 36
                THEN title = source
                ELSE /\ Len(title) = 39
                     /\ \A c \in 1..36 : title[c] = source[c]
                     /\ \A c \in 37..39 : title[c] = 46

\* two entries are returned, one under a title of exactly 36 characters
\* and one whose title of 40 characters was cut
C16_Witness ==
    /\ TopCalled
    /\ Len(result.result) = 2
    /\ \E i, j \in Indices(result.result) :
           /\ Len(SourceTitle(result.result[i])) = 36
           /\ result.result[i].title = SourceTitle(result.result[i])
           /\ Len(SourceTitle(result.result[j])) = 40
           /\ Len(result.result[j].title) = 39

---------------------------------------------------------------------------
(* calculate_user_rankings applied to bounded stats maps *)

\* the most users in a stats map
MaxUsers == 12

\* the users, in the order in which the map is iterated
UserNames == <<"ann", "ben", "cat", "dan", "Total", "eve", "fay", "gus", "hal",
               "ian", "jon", "kim", "lee", "max">>

\* a user's stats: an hour of movies, half an hour of episodes, or (a map
\* without a total) an hour of movies that is not counted
StatsOfUser ==
    {[movie |-> 3600, episode |-> 0, total |-> 3600],
     [movie |-> 0, episode |-> 1800, total |-> 1800],
     [movie |-> 3600]}

\* the stats maps of the first n users in which the first has any stats and
\* every other user one of the first two
RECURSIVE StatsMaps(_)
StatsMaps(n) ==
    IF n = 0 THEN {<<>>}
    ELSE IF n = 1 THEN {<<[key |-> UserNames[1], value |-> v]>> : v \in StatsOfUser}
    ELSE {Append(d, [key |-> UserNames[n], value |-> v]) :
             d \in StatsMaps(n - 1), v \in {w \in StatsOfUser : "total" \in DOMAIN w}}

InitRankings ==
    /\ history_data \in UNION {StatsMaps(n) : n \in 0..MaxUsers}
    /\ now = 0
    /\ called = "none"
    /\ result = <<>>
    /\ RunNotStarted

CallUserRankings ==
    /\ called = "none"
    /\ called' = "calculate_user_rankings"
    /\ result' = calculate_user_rankings(history_data)
    /\ UNCHANGED <<history_data, now, runvars>>

NextRankings == CallUserRankings

SpecRankings == InitRankings /\ [][NextRankings]_vars

---------------------------------------------------------------------------
(* Properties of calculate_user_rankings *)

RankingsCalled == called = "calculate_user_rankings"

\* where the stats map has the user
PlaceInMap(user) == CHOOSE i \in Indices(history_data) : history_data[i].key = user

\* C17: two entries of the ranking with the same total time are in the order
\* in which the stats map has their users
C17_StableOnTies ==
    RankingsCalled =>
        \A i, j \in Indices(result) :
            (i < j /\ result[i].total_time = result[j].total_time)
                => PlaceInMap(result[i].user) < PlaceInMap(result[j].user)

\* three users with the same total time are ranked, in the order of the map,
\* below a user that comes after them in the map
C17_Witness ==
    /\ RankingsCalled
    /\ Len(result) >= 4
    /\ PlaceInMap(result[1].user) = 4
    /\ \A i \in 2..4 : /\ PlaceInMap(result[i].user) = i - 1
                       /\ result[i].total_time = 1800

\* C18: the entry at place r has rank r; it carries the r-th of the ten
\* callouts when r is at most 10 and the default callout otherwise, and no
\* two entries of rank at most 10 carry the same callout
C18_CalloutOfRank ==
    RankingsCalled =>
        /\ \A r \in Indices(result) :
               /\ result[r].rank = r
               /\ r <= 10 => result[r].callout = Callouts[r]
               /\ r > 10 => result[r].callout = "Dedicated Viewer"
        /\ Len(Callouts) = 10
        /\ \A r, q \in Indices(result) :
               (r < q /\ q <= 10) => result[r].callout # result[q].callout

\* eleven users are ranked: the tenth carries the last callout of the table
\* and the eleventh the default
C18_Witness ==
    /\ RankingsCalled
    /\ Len(result) = 11
    /\ result[10].callout = "Content Connoisseur"
    /\ result[11].callout = "Dedicated Viewer"

---------------------------------------------------------------------------
(* get_date_range *)

\* the day number of a civil date: the inverse of CivilOf
DayNumber(civil) ==
    LET y   == civil.year - (IF civil.month <= 2 THEN 1 ELSE 0)
        era == y \div 400
        yoe == y - era * 400
        mp  == IF civil.month > 2 THEN civil.month - 3 ELSE civil.month + 9
        doy == (153 * mp + 2) \div 5 + civil.day - 1
        doe == yoe * 365 + yoe \div 4 - yoe \div 100 + doy
    IN  era * 146097 + doe - 719468

\* date.today() + timedelta(days=1), for the clock t
Tomorrow(t) == CivilOf(DateOf(t) + 1)

\* d - relativedelta(months=1) for the first day d of a month
MonthBefore(civil) ==
    IF civil.month = 1
    THEN [year |-> civil.year - 1, month |-> 12, day |-> civil.day]
    ELSE [civil EXCEPT !.month = civil.month - 1]

\* d - relativedelta(days=1)
DayBefore(civil) == CivilOf(DayNumber(civil) - 1)

\* (first, last) for the period type, with the clock at t
get_date_range(period_type, t) ==
    LET today == Tomorrow(t)
    IN  IF period_type = "monthly"
        THEN LET first_day_current_month == [today EXCEPT !.day = 1]
             IN  [first |-> MonthBefore(first_day_current_month),
                  last |-> DayBefore(first_day_current_month)]
        ELSE LET first_day_current_year == [today EXCEPT !.month = 1, !.day = 1]
             IN  [first |-> first_day_current_year, last |-> today]

---------------------------------------------------------------------------
(* get_date_range applied on bounded run dates *)

\* the last day (counted from 1970-01-01) on which a run starts: March 11
\* of the leap year 1972
MaxRunDay == 800

PeriodTypes == {"monthly", "yearly"}

\* the run starts at noon of its day
InitRange ==
    /\ history_data \in [period_type : PeriodTypes]
    /\ now \in {d * SecondsPerDay + 43200 : d \in 0..MaxRunDay}
    /\ called = "none"
    /\ result = <<>>
    /\ RunNotStarted

CallDateRange ==
    /\ called = "none"
    /\ called' = "get_date_range"
    /\ result' = get_date_range(history_data.period_type, now)
    /\ UNCHANGED <<history_data, now, runvars>>

NextRange == CallDateRange

SpecRange == InitRange /\ [][NextRange]_vars

---------------------------------------------------------------------------
(* Properties of get_date_range *)

\* the yearly range has been computed
YearlyCalled == called = "get_date_range" /\ history_data.period_type = "yearly"

\* the day on which the run starts
RunDate == DateOf(now)

\* C19: the yearly range starts on January 1 of the run date's year and ends
\* on the day after the run date, so it is not empty and has the run date
C19_YearlyRange ==
    YearlyCalled =>
        /\ result.first = [year |-> CivilOf(RunDate).year, month |-> 1, day |-> 1]
        /\ DayNumber(result.last) = RunDate + 1
        /\ DayNumber(result.first) < DayNumber(result.last)
        /\ DayNumber(result.first) <= RunDate
        /\ RunDate <= DayNumber(result.last)

---------------------------------------------------------------------------
(* Properties of the summary report of a run *)

\* the analytics operations of the summary
SummaryAnalytics == SummaryOps \ {"render"}

\* C20: a run whose history was fetched ends with the summary handed to the
\* renderer; a summary statistic whose operation raised is empty in it and
\* every other statistic is what its operation returns
C20_SummaryDegrades ==
    (pc = "done" /\ raised \subseteq SummaryAnalytics) =>
        /\ SummaryReported
        /\ \E i \in Indices(handed) : handed[i] = SummaryUser
        /\ \A name \in SummaryAnalytics :
               report.stats[name] =
                   IF name \in raised THEN EmptyStat
                   ELSE SummaryStats(all_history, user_stats, rankings, now)[name]

\* the per-user event lists, one after the other in the order of the users
RECURSIVE UnionOfUserHistories(_)
UnionOfUserHistories(n) ==
    IF n = 0 THEN <<>>
    ELSE UnionOfUserHistories(n - 1) \o user_history[n].value

\* C21: the summary has every statistic of a user's report, each with the
\* value its operation yields on the union of the per-user event lists
C21_SummaryFromUnion ==
    (pc = "done" /\ SummaryReported) =>
        LET union == UnionOfUserHistories(Len(user_history))
        IN  /\ UserStats \subseteq DOMAIN report.stats
            /\ report.stats.top_watched =
                   get_top_watched_items(union, 5, thumbnails, ServerImage).result
            /\ report.stats.genres =
                   analyze_genre_diversity(Take(union, GenreLimit), ServerMetadata)
            /\ report.stats.library_coverage =
                   calculate_library_coverage(union, ServerLibraries, ServerMediaInfo)
            /\ report.stats.first_last = get_first_last_watch(union)
            /\ report.stats.streak = calculate_watch_streaks(union, now)
            /\ report.stats.binge_sessions = detect_binge_sessions(union)

---------------------------------------------------------------------------
(* analyze_genre_diversity applied to bounded histories and lookup failures *)

\* the longest history handed to analyze_genre_diversity
MaxGenreEvents == 3

\* the genres the server has for a key
GenreTags ==
    [k \in {10, 11, 12, 20, 21, 22} |->
        IF k = 10 THEN <<"Drama", "Crime", "Action">>
        ELSE IF k = 11 THEN <<"Horror">>
        ELSE IF k = 12 THEN <<"Western", "Drama">>
        ELSE IF k = 20 THEN <<"Sitcom">>
        ELSE IF k = 21 THEN <<"Comedy", "Drama">>
        ELSE <<"Family", "Mystery">>]

\* client.get_metadata when the lookups of the keys in fails raise
GenreMetadata(fails) ==
    [k \in RatingKeys |->
        IF k \in fails \/ k \notin DOMAIN GenreTags THEN [ok |-> FALSE]
        ELSE [ok |-> TRUE, response |-> [data |-> [genres |-> GenreTags[k]]]]]

\* two movies, two episodes of series 20, a movie without a play duration
\* and an event without keys
GenreEvents ==
    <<TitledMovie(10, <<77>>, 3600), TitledMovie(11, <<78>>, 1800),
      Child("episode", 20, 21, ShowX, 1800), Child("episode", 20, 22, ShowX, 2400),
      [media_type |-> "movie", rating_key |-> 12, title |-> <<79>>],
      [media_type |-> "movie", title |-> <<80>>, play_duration |-> 900]>>

InitGenres ==
    /\ history_data \in [history : Lists(GenreEvents, MaxGenreEvents),
                         fails : SUBSET DOMAIN GenreTags]
    /\ now = 0
    /\ called = "none"
    /\ result = <<>>
    /\ RunNotStarted

\* result is the returned record with the lookups that were made
CallGenreDiversity ==
    /\ called = "none"
    /\ called' = "analyze_genre_diversity"
    /\ result' = [result |-> analyze_genre_diversity(history_data.history,
                                                     GenreMetadata(history_data.fails)),
                  lookups |-> GenreLookups(history_data.history)]
    /\ UNCHANGED <<history_data, now, runvars>>

NextGenres == CallGenreDiversity

SpecGenres == InitGenres /\ [][NextGenres]_vars

---------------------------------------------------------------------------
(* Properties of analyze_genre_diversity *)

GenresCalled == called = "analyze_genre_diversity"

\* the event has a series key and an item key
HasBothKeys(event) ==
    /\ "grandparent_rating_key" \in DOMAIN event /\ event.grandparent_rating_key # 0
    /\ "rating_key" \in DOMAIN event /\ event.rating_key # 0

\* C22: an event that has a series key and an item key is looked up with
\* its series key
C22_SeriesKeyPreferred ==
    GenresCalled =>
        \A i \in Indices(history_data.history) :
            HasBothKeys(history_data.history[i])
                => result.lookups[i] = history_data.history[i].grandparent_rating_key

\* whether the event is looked up, and the key it is looked up with (0 when
\* it has none): the item key, or the series key of an event without one
KeyLookedUp(event) ==
    IF "rating_key" \in DOMAIN event /\ event.rating_key # 0 THEN event.rating_key
    ELSE IF "grandparent_rating_key" \in DOMAIN event THEN event.grandparent_rating_key
    ELSE 0

\* the events whose lookup does not fail
WithoutFailed ==
    SelectSeq(history_data.history, LAMBDA event : KeyLookedUp(event) \notin history_data.fails)

\* the play durations of the events that are looked up without failure and
\* carry the genre, summed
GenreSeconds(genre) ==
    Sum([i \in Indices(WithoutFailed) |->
            IF /\ KeyLookedUp(WithoutFailed[i]) # 0
               /\ \E g \in Indices(GenreTags[KeyLookedUp(WithoutFailed[i])]) :
                      GenreTags[KeyLookedUp(WithoutFailed[i])][g] = genre
            THEN Get(WithoutFailed[i], "play_duration", 0) ELSE 0])

\* the genre tags of the events that are looked up without failure, counted
GenreTagCount ==
    Sum([i \in Indices(WithoutFailed) |->
            IF KeyLookedUp(WithoutFailed[i]) # 0
            THEN Len(GenreTags[KeyLookedUp(WithoutFailed[i])]) ELSE 0])

\* C23: whatever lookups fail, the result is the one of the list without the
\* events whose lookup fails, and every other event adds its whole play
\* duration to each of its genres
C23_LookupFailureSkipped ==
    GenresCalled =>
        /\ result.result = analyze_genre_diversity(WithoutFailed, GenreMetadata({}))
        /\ result.result.total_genre_tags = GenreTagCount
        /\ \A i \in Indices(result.result.top_genres) :
               result.result.top_genres[i].seconds =
                   GenreSeconds(result.result.top_genres[i].name)

\* the lookup of the second of three events fails; the other two share a
\* genre, and the genre seconds sum to more than the time watched
C23_Witness ==
    /\ GenresCalled
    /\ Len(history_data.history) = 3
    /\ KeyLookedUp(history_data.history[2]) \in history_data.fails
    /\ Len(WithoutFailed) = 2
    /\ \E i \in Indices(result.result.top_genres) :
           result.result.top_genres[i].seconds =
               Sum([j \in Indices(WithoutFailed) |->
                       Get(WithoutFailed[j], "play_duration", 0)])
    /\ \A j \in Indices(WithoutFailed) : Get(WithoutFailed[j], "play_duration", 0) > 0
    /\ Sum([i \in Indices(result.result.top_genres) |->
               result.result.top_genres[i].seconds])
           > Sum([j \in Indices(WithoutFailed) |->
                     Get(WithoutFailed[j], "play_duration", 0)])

---------------------------------------------------------------------------
(* get_first_last_watch applied to bounded event lists *)

\* the longest history handed to get_first_last_watch
MaxFirstLastEvents == 4

\* two events at the same time on 1970-01-03, events on days 4 and 5 (one
\* without title and type), an event without a date, and one at the end of
\* day 5
FirstLastEvents ==
    <<[full_title |-> <<65>>, date |-> 2 * SecondsPerDay + 100, media_type |-> "movie"],
      [full_title |-> <<66>>, date |-> 2 * SecondsPerDay + 100, media_type |-> "episode"],
      [full_title |-> <<67>>, date |-> 4 * SecondsPerDay, media_type |-> "movie"],
      [date |-> 3 * SecondsPerDay],
      [full_title |-> <<68>>, media_type |-> "track"],
      [full_title |-> <<69>>, date |-> 4 * SecondsPerDay + 86399, media_type |-> "movie"]>>

InitFirstLast ==
    /\ history_data \in Lists(FirstLastEvents, MaxFirstLastEvents)
    /\ now = 0
    /\ called = "none"
    /\ result = <<>>
    /\ RunNotStarted

CallFirstLastWatch ==
    /\ called = "none"
    /\ called' = "get_first_last_watch"
    /\ result' = get_first_last_watch(history_data)
    /\ UNCHANGED <<history_data, now, runvars>>

NextFirstLast == CallFirstLastWatch

SpecFirstLast == InitFirstLast /\ [][NextFirstLast]_vars

---------------------------------------------------------------------------
(* Properties of get_first_last_watch *)

FirstLastCalled == called = "get_first_last_watch"

\* an event's timestamp (0 when it has none)
TimestampOf(event) == IF "date" \in DOMAIN event THEN event.date ELSE 0

\* what is reported of an event: its full title, the civil date of its
\* timestamp and its media type
ReportedOf(event) ==
    [title |-> IF "full_title" \in DOMAIN event THEN event.full_title
               ELSE <<85, 110, 107, 110, 111, 119, 110>>,
     date |-> CivilOf(TimestampOf(event) \div 86400),
     type |-> IF "media_type" \in DOMAIN event THEN event.media_type ELSE "unknown"]

\* the events of the list that have the least, and the greatest, timestamp
EarliestEvents ==
    {history_data[i] : i \in {j \in Indices(history_data) :
        \A k \in Indices(history_data) :
            TimestampOf(history_data[j]) <= TimestampOf(history_data[k])}}

LatestEvents ==
    {history_data[i] : i \in {j \in Indices(history_data) :
        \A k \in Indices(history_data) :
            TimestampOf(history_data[j]) >= TimestampOf(history_data[k])}}

\* the day number of a reported civil date
ReportedDay(watch) ==
    CHOOSE d \in 0..10 : CivilOf(d) = watch.date

\* C26: of a non-empty list, first is an event with the least timestamp and
\* last one with the greatest, so first is not later than last; of the empty
\* list both are null
C26_FirstAndLast ==
    FirstLastCalled =>
        IF history_data = <<>>
        THEN result = [first |-> None, last |-> None]
        ELSE /\ \E event \in EarliestEvents : result.first = ReportedOf(event)
             /\ \E event \in LatestEvents : result.last = ReportedOf(event)
             /\ ReportedDay(result.first) <= ReportedDay(result.last)

\* three events listed latest first: first is the last of the list and
\* last is the first of the list, two days later
C26_Witness ==
    /\ FirstLastCalled
    /\ Len(history_data) = 3
    /\ TimestampOf(history_data[1]) > TimestampOf(history_data[2])
    /\ TimestampOf(history_data[2]) > TimestampOf(history_data[3])
    /\ result.first = ReportedOf(history_data[3])
    /\ result.last = ReportedOf(history_data[1])
    /\ ReportedDay(result.last) = ReportedDay(result.first) + 2

---------------------------------------------------------------------------
(* _download_thumbnail called repeatedly on one thumbnail directory *)

\* the most calls of _download_thumbnail
MaxThumbnailCalls == 3

\* the keys thumbnails are asked for
ThumbnailKeys == {10, 20}

\* what the server may do at a call
Outcomes == {"error", "nothumb", "rejected", "invalid", "valid"}

\* the directory is empty and no call has been made; history_data is the
\* list of the calls made so far
InitThumbnails ==
    /\ history_data = <<>>
    /\ now = 0
    /\ called = "none"
    /\ result = <<>>
    /\ RunNotStarted

\* one call: result is what it returns, thumbnails the directory afterwards
CallDownloadThumbnail ==
    /\ Len(history_data) < MaxThumbnailCalls
    /\ \E rating_key \in ThumbnailKeys, served \in Outcomes :
           /\ history_data' = Append(history_data,
                                     [rating_key |-> rating_key, served |-> served])
           /\ result' = download_thumbnail(thumbnails, served, rating_key)
           /\ thumbnails' = download_thumbnail(thumbnails, served, rating_key).files
    /\ called' = "_download_thumbnail"
    /\ UNCHANGED <<now, pc, all_history, folded, user_history, user_stats, user_ids,
                   rankings, next_user, report, raised, handed, generated_files>>

NextThumbnails == CallDownloadThumbnail

SpecThumbnails == InitThumbnails /\ [][NextThumbnails]_vars

---------------------------------------------------------------------------
(* Properties of _download_thumbnail *)

\* the directory has a file for the key that passes the check
FileIsValid(rating_key) ==
    rating_key \in DOMAIN thumbnails /\ thumbnails[rating_key] = "valid"

\* the latest call
LatestCall == history_data[Len(history_data)]

\* C27: a call for a key whose file exists and passes the check returns the
\* file's path, asks the server nothing and leaves the directory as it is;
\* any other call asks the server, and returns the empty string unless the
\* server gives a valid image
C27_CacheIdempotent ==
    [][Len(history_data') = Len(history_data) + 1 =>
          LET rating_key == LatestCall'.rating_key
          IN  IF FileIsValid(rating_key)
              THEN /\ result'.path = <<"thumbnails", rating_key, ".jpg">>
                   /\ ~result'.requested
                   /\ thumbnails' = thumbnails
              ELSE /\ result'.requested
                   /\ LatestCall'.served # "valid" => result'.path = <<>>
                   /\ LatestCall'.served = "valid" =>
                          /\ result'.path = <<"thumbnails", rating_key, ".jpg">>
                          /\ rating_key \in DOMAIN thumbnails'
                          /\ thumbnails'[rating_key] = "valid"]_vars

\* key 10 is first served an invalid image, then a valid one; the third
\* call, while the server fails, returns the cached path without a request
C27_Witness ==
    /\ Len(history_data) = 3
    /\ \A i \in 1..3 : history_data[i].rating_key = 10
    /\ history_data[1].served = "invalid"
    /\ history_data[2].served = "valid"
    /\ history_data[3].served = "error"
    /\ result.path = <<"thumbnails", 10, ".jpg">>
    /\ ~result.requested
    /\ thumbnails[10] = "valid"

---------------------------------------------------------------------------
(* Properties of the per-user stats of a run *)

\* the play durations of the folded entries that have a tracked media type
\* and a user, summed
FoldedSeconds ==
    Sum([i \in 1..folded |->
            IF /\ "media_type" \in DOMAIN all_history[i]
               /\ all_history[i].media_type \in {"movie", "episode"}
               /\ "friendly_name" \in DOMAIN all_history[i]
               /\ all_history[i].friendly_name # ""
            THEN Get(all_history[i], "play_duration", 0) ELSE 0])

\* the stats of every user add up and account for the folded entries
StatsAddUp ==
    /\ \A u \in Indices(user_stats) :
           /\ user_stats[u].value.movie >= 0
           /\ user_stats[u].value.episode >= 0
           /\ user_stats[u].value.total >= 0
           /\ user_stats[u].value.total =
                  user_stats[u].value.movie + user_stats[u].value.episode
    /\ Sum([u \in Indices(user_stats) |-> user_stats[u].value.total]) = FoldedSeconds
    /\ {user_stats[u].key : u \in Indices(user_stats)} =
           {user_history[u].key : u \in {v \in Indices(user_history) :
                                            user_history[v].value # <<>>}}

\* no user's stats get smaller or disappear in a step
StatsGrow ==
    \A u \in Indices(user_stats) :
        \E v \in Indices(user_stats') :
            /\ user_stats'[v].key = user_stats[u].key
            /\ user_stats'[v].value.movie >= user_stats[u].value.movie
            /\ user_stats'[v].value.episode >= user_stats[u].value.episode
            /\ user_stats'[v].value.total >= user_stats[u].value.total

\* C28: after every prefix of the history is folded, each user's total is
\* movie + episode with none of them negative, the totals sum to the play
\* durations of the folded tracked entries that have a user, the users with
\* stats are those with a non-empty history list, and no value ever gets
\* smaller
C28_StatsOfFoldedPrefix ==
    /\ [](StatsAddUp)
    /\ [][StatsGrow]_vars

\* three entries are folded: a user's movie and episode, and a track that
\* is not counted
C28_Witness ==
    /\ folded = 3
    /\ Len(user_stats) = 1
    /\ user_stats[1].value.movie > 0
    /\ user_stats[1].value.episode > 0
    /\ Len(user_history[1].value) = 2
    /\ \E i \in 1..3 : all_history[i].media_type = "track"

---------------------------------------------------------------------------
(* Properties of the reports of the users of a run *)

\* the users whose iteration is over, in the order of user_history
UsersProcessed == [i \in 1..(next_user - 1) |-> user_history[i].key]

\* the events of the user of the latest report
ReportedHistory == DictGet(user_history, report.user)

\* the event has the least timestamp of the list, or the greatest
IsEarliest(history, i) ==
    \A k \in Indices(history) : TimestampOf(history[i]) <= TimestampOf(history[k])

IsLatest(history, i) ==
    \A k \in Indices(history) : TimestampOf(history[i]) >= TimestampOf(history[k])

\* the calendar dates on which the list has an event
DatesWatched(history) ==
    {TimestampOf(history[i]) \div SecondsPerDay : i \in Indices(history)}

\* the most consecutive calendar dates among them
MostConsecutiveDates(history) ==
    LET dates == DatesWatched(history)
    IN  CHOOSE k \in 1..Cardinality(dates) :
            /\ \E d \in dates : \A x \in d..(d + k - 1) : x \in dates
            /\ \A d \in dates : \E x \in d..(d + k) : x \notin dates

\* three episodes of one series follow each other, each at most 28800 s
\* after the one before
HasBingeOfThree(history) ==
    \E i, j, k \in Indices(history) :
        /\ i # j /\ j # k /\ i # k
        /\ \A e \in {i, j, k} : IsShowEpisode(history[e]) /\ "date" \in DOMAIN history[e]
        /\ history[i].grandparent_title = history[j].grandparent_title
        /\ history[j].grandparent_title = history[k].grandparent_title
        /\ history[i].date <= history[j].date
        /\ history[j].date <= history[k].date
        /\ history[j].date - history[i].date <= 28800
        /\ history[k].date - history[j].date <= 28800

\* the content keys of a user's events
ContentKeysOf(user) ==
    LET history == DictGet(user_history, user)
    IN  {SeriesOrItemKey(history[i]) : i \in Indices(history)} \ {0}

\* those of them that no other user has
OwnContentKeys(user) ==
    ContentKeysOf(user)
        \ UNION {ContentKeysOf(user_history[u].key) :
                    u \in {v \in Indices(user_history) : user_history[v].key # user}}

\* C3: in the report of a user, a statistic whose operation raised is the
\* empty structure, and the sort of detect_binge_sessions always raises on
\* events that make it; every other statistic has the value its operation
\* returns on the user's events, which for the statistics of the events alone
\* is stated from the events: first and last are an earliest and a latest
\* event, the longest streak is the most consecutive dates, a binge session
\* is listed exactly when three episodes of a series follow each other
\* closely, and the unique count is the number of content keys no other user
\* has.  The report was handed to the renderer, as was the one of every user
\* before it whatever raised for them, and when the run is over every user's
\* report has been handed over
C3_FailureIsolated ==
    /\ (pc = "users" /\ UserReported) =>
           LET user == report.user
               history == ReportedHistory
               stats == report.stats
           IN  /\ DataRaises(history) \subseteq raised
               /\ \A name \in raised \cap UserStats : stats[name] = EmptyStat
               /\ "top_watched" \notin raised =>
                      stats.top_watched =
                          get_top_watched_items(history, TopLimit, thumbnails,
                                                ServerImage).result
               /\ "peak_hours" \notin raised =>
                      stats.peak_hours =
                          get_peak_watching_hours(ServerHourOfDay(UserIdArg(history)))
               /\ "platforms" \notin raised =>
                      stats.platforms =
                          get_platform_breakdown(ServerPlatforms(UserIdArg(history)))
               /\ "first_last" \notin raised =>
                      /\ stats.first_last = get_first_last_watch(history)
                      /\ \E i \in Indices(history) :
                             /\ IsEarliest(history, i)
                             /\ stats.first_last.first = ReportedOf(history[i])
                      /\ \E i \in Indices(history) :
                             /\ IsLatest(history, i)
                             /\ stats.first_last.last = ReportedOf(history[i])
               /\ "streak" \notin raised =>
                      /\ stats.streak = calculate_watch_streaks(history, now)
                      /\ stats.streak.longest_streak = MostConsecutiveDates(history)
                      /\ stats.streak.total_active_days =
                             Cardinality(DatesWatched(history))
               /\ "binge_sessions" \notin raised =>
                      /\ stats.binge_sessions = detect_binge_sessions(history)
                      /\ stats.binge_sessions # <<>> <=> HasBingeOfThree(history)
               /\ "genres" \notin raised =>
                      stats.genres =
                          analyze_genre_diversity(Take(history, GenreLimit),
                                                  ServerMetadata)
               /\ "library_coverage" \notin raised =>
                      stats.library_coverage =
                          calculate_library_coverage(history, ServerLibraries,
                                                     ServerMediaInfo)
               /\ "unique_content" \notin raised =>
                      /\ stats.unique_content = find_unique_content(user_history, user)
                      /\ stats.unique_content.count = Cardinality(OwnContentKeys(user))
               /\ handed = UsersProcessed
               /\ user = handed[Len(handed)]
    /\ pc = "done" =>
           /\ Len(handed) >= Len(user_history)
           /\ \A i \in Indices(user_history) : handed[i] = user_history[i].key

\* one operation of the second user's report raised while the others
\* returned statistics, and a third user remains
C3_Witness ==
    /\ pc = "users"
    /\ next_user = 3
    /\ Len(user_history) = 3
    /\ raised = {"streak"}
    /\ report.stats.streak = EmptyStat
    /\ report.stats.first_last # EmptyStat
    /\ report.stats.top_watched # EmptyStat
    /\ report.stats.unique_content # EmptyStat
    /\ handed = UsersProcessed

---------------------------------------------------------------------------
(* Properties of the exceptions that leave a run *)

\* nothing has been handed to the renderer and no report file exists
NothingGenerated ==
    /\ handed = <<>>
    /\ generated_files = <<>>
    /\ report = NoReport

\* C4: an exception has left the run only if the fetch of the history
\* failed, and then no report, of a user or of the server, was generated
C4_RaisesOnlyIfFetchFails ==
    pc = "raised" => (raised = {"get_history"} /\ NothingGenerated)

=============================================================================
